---- MODULE Spec2Model ----
(***************************************************************************)
(* The text-editing core of the Hone editor demos (DemoEditor): a line     *)
(* buffer with cursor, selection anchor and vertical scroll offset, driven *)
(* by the input callbacks of the platform front-ends.                      *)
(*                                                                         *)
(* A line is a sequence of UTF-8 bytes.  Bytes are written as strings:     *)
(* "a" is the one-byte character a, "c3" "a9" are the lead and the         *)
(* continuation byte of the two-byte character e-acute, "nl" is the        *)
(* newline byte (only in input text, never inside a line).                 *)
(* Lines, columns and origins are 0-based as in the source; a TLA+         *)
(* sequence is 1-based, so line l is lines[l + 1] and the byte at offset   *)
(* c of a string s is s[c + 1].                                            *)
(***************************************************************************)
EXTENDS Integers, Sequences, FiniteSets, TLC

VARIABLES lines, original_lines, line_origins, cursor_line, cursor_col,
          sel_anchor, scroll_y, crashed,
          \* the calls made on the EditorView since the last completed frame
          calls,
          \* one call of validate_tokens_json: its arguments, its result, and
          \* whether it has returned
          tokens_json, orig_text, curr_text, remapped, returned,
          \* how many clipboard reads started by "paste:" have not completed
          paste_reads

editor_vars == <<lines, original_lines, line_origins, cursor_line, cursor_col,
                 sel_anchor, scroll_y, crashed, calls>>

remap_vars == <<tokens_json, orig_text, curr_text, remapped, returned>>

paste_vars == <<paste_reads>>

vars == <<editor_vars, remap_vars, paste_vars>>

(* ---------------------------- bounds ---------------------------------- *)

\* Largest buffer explored: bytes of all lines plus one per line break.
MaxFlat == 4
\* Longest text handed to insert_text in one call, in characters.
MaxText == 2
\* The lines handed to the token remapper hold at most MaxLine bytes.
MaxLine == 4
\* Clipboard reads outstanding at the same time.
MaxReads == 1
\* The buffers whose gutter is examined hold at most MaxCount lines.
MaxCount == 100
\* Font and viewport metrics, in pixels (scaled down): the view shows one line.
LineHeight == 2
ViewHeight == 2
CharWidth == 2

(* ------------------------- program constants --------------------------- *)

\* Fixed gutter padding added to the digit columns.
GutterPad == 36

None == <<>>

(* ------------------------------ UTF-8 ---------------------------------- *)

\* u8 continuation byte (0b10xxxxxx).
IsCont(b) == b = "a9"

\* char::len_utf8 of the character whose first byte is b.
len_utf8(b) == IF b = "c3" THEN 2 ELSE 1

\* str::is_char_boundary.
is_char_boundary(s, i) ==
    \/ i = 0
    \/ i = Len(s)
    \/ i > 0 /\ i < Len(s) /\ ~IsCont(s[i + 1])

\* s[a..b]; the caller has checked the range.
Slice(s, a, b) == SubSeq(s, a + 1, b)

\* s.chars().count()
RECURSIVE NumChars(_)
NumChars(s) ==
    IF s = <<>> THEN 0
    ELSE 1 + NumChars(SubSeq(s, len_utf8(s[1]) + 1, Len(s)))

\* line[..col].char_indices().next_back().map(|(i, _)| i).unwrap_or(0)
RECURSIVE prev_char_start(_, _)
prev_char_start(line, col) ==
    IF col = 0 THEN 0
    ELSE IF ~IsCont(line[col]) THEN col - 1
    ELSE prev_char_start(line, col - 1)

\* line[col..].char_indices().nth(1).map(|(i, _)| col + i).unwrap_or(line_len)
next_char_end(line, col) ==
    IF col + len_utf8(line[col + 1]) < Len(line)
    THEN col + len_utf8(line[col + 1])
    ELSE Len(line)

\* text.split('\n'): the segments between newline bytes, at least one.
RECURSIVE Split(_)
Split(text) ==
    IF \A i \in 1..Len(text) : text[i] # "nl" THEN <<text>>
    ELSE LET k == CHOOSE i \in 1..Len(text) :
                     text[i] = "nl" /\ \A j \in 1..(i - 1) : text[j] # "nl"
         IN <<SubSeq(text, 1, k - 1)>> \o Split(SubSeq(text, k + 1, Len(text)))

(* --------------------------- the editor -------------------------------- *)

\* The DemoEditor value as a record, so that operations compose.
St == [lines |-> lines, original_lines |-> original_lines,
       line_origins |-> line_origins,
       cursor_line |-> cursor_line, cursor_col |-> cursor_col,
       sel_anchor |-> sel_anchor, scroll_y |-> scroll_y, crashed |-> crashed,
       calls |-> calls]

\* A panic: the process aborts with the state as it was at that point.
Crash(e) == [e EXCEPT !.crashed = TRUE]

Line(e, l) == e.lines[l + 1]

keyword_c == "#569cd6"
ident_c == "#9cdcfe"

Span(s, e, c, st) == [s |-> s, e |-> e, c |-> c, st |-> st]

\* initial_content(), scaled down to two lines of ASCII text: the (text,
\* tokens) pairs.
initial_content ==
    << << <<"a", "a">>, << Span(0, 2, keyword_c, "normal") >> >>,
       << <<"a">>, << Span(0, 1, ident_c, "italic") >> >> >>

\* content.iter().map(|(t, _)| t.clone()).collect()
InitialContent == [i \in 1..Len(initial_content) |-> initial_content[i][1]]

\* Vec::insert(idx, x)
VecInsert(v, idx, x) == SubSeq(v, 1, idx) \o <<x>> \o SubSeq(v, idx + 1, Len(v))

\* Vec::remove(idx)
VecRemove(v, idx) == SubSeq(v, 1, idx) \o SubSeq(v, idx + 2, Len(v))

\* Mutant: the drained range excludes its end (from..to).
VecDrain_exclusive(v, from, to) ==
    IF from >= to THEN v ELSE SubSeq(v, 1, from) \o SubSeq(v, to + 1, Len(v))

\* Vec::drain(from..=to)
VecDrain(v, from, to) == SubSeq(v, 1, from) \o SubSeq(v, to + 2, Len(v))

Max(a, b) == IF a >= b THEN a ELSE b
Min(a, b) == IF a <= b THEN a ELSE b

total_content_height(e) == Len(e.lines) * LineHeight

clamp_scroll(e) ==
    LET max_scroll == Max(total_content_height(e) - ViewHeight, 0)
    IN [e EXCEPT !.scroll_y = Max(0, Min(e.scroll_y, max_scroll))]

scroll_to_cursor(e) ==
    LET cursor_top == e.cursor_line * LineHeight
        cursor_bottom == cursor_top + LineHeight
        y == IF cursor_top < e.scroll_y THEN cursor_top
             ELSE IF cursor_bottom > e.scroll_y + ViewHeight
                  THEN cursor_bottom - ViewHeight
                  ELSE e.scroll_y
    IN clamp_scroll([e EXCEPT !.scroll_y = y])

\* Mutant: the column is not clamped to the new line's length.
clamp_cursor_line_only(e) ==
    [e EXCEPT !.cursor_line = IF @ >= Len(e.lines) THEN Max(Len(e.lines) - 1, 0) ELSE @]

clamp_cursor(e) ==
    LET l == IF e.cursor_line >= Len(e.lines)
             THEN Max(Len(e.lines) - 1, 0) ELSE e.cursor_line
        line_len == Len(e.lines[l + 1])
    IN [e EXCEPT !.cursor_line = l,
                 !.cursor_col = IF e.cursor_col > line_len THEN line_len
                                ELSE e.cursor_col]

\* (a, b) <= (c, d) on tuples, lexicographic.
PosLe(al, ac, cl, cc) == al < cl \/ (al = cl /\ ac <= cc)

\* Some((sl, sc, el, ec)) as a 4-tuple, None when there is no anchor.
selection_range(e) ==
    IF e.sel_anchor = None THEN None
    ELSE LET al == e.sel_anchor[1]
             ac == e.sel_anchor[2]
         IN IF PosLe(al, ac, e.cursor_line, e.cursor_col)
            THEN <<al, ac, e.cursor_line, e.cursor_col>>
            ELSE <<e.cursor_line, e.cursor_col, al, ac>>

has_selection(e) ==
    /\ e.sel_anchor # None
    /\ (e.sel_anchor[1] # e.cursor_line \/ e.sel_anchor[2] # e.cursor_col)

\* The slices selected_text takes are on character boundaries (else it panics).
selected_text_ok(e) ==
    LET r == selection_range(e) IN
    \/ r = None
    \/ /\ r # None
       /\ is_char_boundary(Line(e, r[1]), r[2])
       /\ is_char_boundary(Line(e, r[3]), r[4])

\* Mutant: the lines in between are appended without the newline.
RECURSIVE JoinFrom_no_newline(_, _, _)
JoinFrom_no_newline(e, from, to) ==
    IF from >= to THEN <<>>
    ELSE Line(e, from) \o JoinFrom_no_newline(e, from + 1, to)

RECURSIVE JoinFrom(_, _, _)
JoinFrom(e, from, to) ==
    IF from >= to THEN <<>>
    ELSE <<"nl">> \o Line(e, from) \o JoinFrom(e, from + 1, to)

\* Mutant: of a selection of several lines only the part on its first line
\* is returned.
selected_text_first_line(e) ==
    LET r == selection_range(e) IN
    IF r = None THEN <<>>
    ELSE IF r[1] = r[3]
         THEN Slice(Line(e, r[1]), r[2], r[4])
         ELSE Slice(Line(e, r[1]), r[2], Len(Line(e, r[1])))

\* The text of the ordered selection range, lines joined by a newline byte.
selected_text(e) ==
    LET r == selection_range(e) IN
    IF r = None THEN <<>>
    ELSE LET sl == r[1]
             sc == r[2]
             el == r[3]
             ec == r[4]
         IN IF sl = el
            THEN Slice(Line(e, sl), sc, ec)
            ELSE Slice(Line(e, sl), sc, Len(Line(e, sl)))
                 \o JoinFrom(e, sl + 1, el)
                 \o <<"nl">> \o Slice(Line(e, el), 0, ec)

select_all(e) ==
    LET last == Len(e.lines) - 1
    IN [e EXCEPT !.sel_anchor = <<0, 0>>,
                 !.cursor_line = last,
                 !.cursor_col = Len(e.lines[last + 1])]

delete_selection(e) ==
    LET r == selection_range(e) IN
    IF r = None THEN [e EXCEPT !.sel_anchor = None]
    ELSE LET sl == r[1]
             sc == r[2]
             el == r[3]
             ec == r[4]
         IN IF sl = el
            THEN \* replace_range(sc..ec, "")
                 IF is_char_boundary(Line(e, sl), sc) /\ is_char_boundary(Line(e, sl), ec)
                 THEN [e EXCEPT !.lines[sl + 1] =
                                    Slice(@, 0, sc) \o Slice(@, ec, Len(@)),
                                !.cursor_line = sl,
                                !.cursor_col = sc,
                                !.line_origins = VecDrain(@, sl + 1, el),
                                !.sel_anchor = None]
                 ELSE Crash(e)
            ELSE \* tail = lines[el][ec..]; truncate(sc); push_str; drain
                 IF is_char_boundary(Line(e, el), ec) /\ is_char_boundary(Line(e, sl), sc)
                 THEN LET tail == Slice(Line(e, el), ec, Len(Line(e, el)))
                          joined == [e.lines EXCEPT ![sl + 1] = Slice(@, 0, sc) \o tail]
                      IN [e EXCEPT !.lines = VecDrain(joined, sl + 1, el),
                                   !.cursor_line = sl,
                                   !.cursor_col = sc,
                                   !.line_origins = VecDrain(@, sl + 1, el),
                                   !.sel_anchor = None]
                 ELSE Crash(e)

\* Mutant: the text of the line's origin is kept equal to the edited line.
RECURSIVE insert_chars_into_original(_, _)
insert_chars_into_original(e, part) ==
    IF part = <<>> \/ e.crashed THEN e
    ELSE LET n == len_utf8(part[1])
             ch == SubSeq(part, 1, n)
             line == Line(e, e.cursor_line)
             edited == Slice(line, 0, e.cursor_col) \o ch
                       \o Slice(line, e.cursor_col, Len(line))
         IN IF is_char_boundary(line, e.cursor_col)
            THEN insert_chars_into_original(
                   [e EXCEPT !.lines[e.cursor_line + 1] = edited,
                             !.original_lines[e.line_origins[e.cursor_line + 1] + 1][1] = edited,
                             !.cursor_col = @ + n],
                   SubSeq(part, n + 1, Len(part)))
            ELSE Crash(e)

\* for ch in part.chars() { lines[cursor_line].insert(cursor_col, ch); cursor_col += ch.len_utf8() }
RECURSIVE insert_chars(_, _)
insert_chars(e, part) ==
    IF part = <<>> \/ e.crashed THEN e
    ELSE LET n == len_utf8(part[1])
             ch == SubSeq(part, 1, n)
             line == Line(e, e.cursor_line)
         IN IF is_char_boundary(line, e.cursor_col)
            THEN insert_chars(
                   [e EXCEPT !.lines[e.cursor_line + 1] =
                                 Slice(line, 0, e.cursor_col) \o ch
                                 \o Slice(line, e.cursor_col, Len(line)),
                             !.cursor_col = @ + n],
                   SubSeq(part, n + 1, Len(part)))
            ELSE Crash(e)

\* Mutant: the split forgets to give the new line an origin entry.
split_origins_forgotten(origins, l) == origins

\* Mutant: the new line counts as a descendant of the first original line.
split_origins_first(origins, l) == VecInsert(origins, l, 0)

\* Mutant: the new line gets its own index as origin, not the inherited one.
split_origins_own_index(origins, l) == VecInsert(origins, l, l)

\* line_origins.insert(l, line_origins[l - 1]): the new line l inherits the
\* origin of the line it was split from.
split_origins(origins, l) == VecInsert(origins, l, origins[l])

\* The line split shared by insert_text (per newline) and insert_newline.
split_line(e) ==
    LET line == Line(e, e.cursor_line) IN
    IF is_char_boundary(line, e.cursor_col)
    THEN LET tail == Slice(line, e.cursor_col, Len(line))
             head == [e.lines EXCEPT ![e.cursor_line + 1] = Slice(line, 0, e.cursor_col)]
             l == e.cursor_line + 1
         IN [e EXCEPT !.lines = VecInsert(head, l, tail),
                      !.line_origins = split_origins(@, l),
                      !.cursor_line = l,
                      !.cursor_col = 0]
    ELSE Crash(e)

\* Mutant: the line is split after the characters of the segment went in.
RECURSIVE insert_parts_split_after(_, _)
insert_parts_split_after(e, parts) ==
    IF parts = <<>> \/ e.crashed THEN e
    ELSE LET e1 == insert_chars(e, Head(parts))
             e2 == IF e1.crashed THEN e1 ELSE split_line(e1)
         IN insert_parts_split_after(e2, Tail(parts))

RECURSIVE insert_parts(_, _)
insert_parts(e, parts) ==
    IF parts = <<>> \/ e.crashed THEN e
    ELSE LET e1 == split_line(e)
         IN IF e1.crashed THEN e1
            ELSE insert_parts(insert_chars(e1, Head(parts)), Tail(parts))

\* Mutant: typing does not delete the selection first.
keep_selection(e) == e

\* if self.has_selection() { self.delete_selection(); }
replace_selection(e) == IF has_selection(e) THEN delete_selection(e) ELSE e

insert_text(e, text) ==
    LET e1 == replace_selection(e)
        parts == Split(text)
        e2 == IF e1.crashed THEN e1 ELSE insert_chars(e1, Head(parts))
        e3 == insert_parts(e2, Tail(parts))
    IN IF e3.crashed THEN e3
       ELSE scroll_to_cursor([e3 EXCEPT !.sel_anchor = None])

\* Mutant: the line is split and an anchor without a selection stays.
insert_newline_keeps_anchor(e) ==
    LET e1 == replace_selection(e)
        e2 == IF e1.crashed THEN e1 ELSE split_line(e1)
    IN IF e2.crashed THEN e2 ELSE scroll_to_cursor(e2)

insert_newline(e) ==
    LET e1 == replace_selection(e)
        e2 == IF e1.crashed THEN e1 ELSE split_line(e1)
    IN IF e2.crashed THEN e2
       ELSE scroll_to_cursor([e2 EXCEPT !.sel_anchor = None])

\* Mutant: backspace removes one byte, not one character.
backspace_byte(e) ==
    LET line == Line(e, e.cursor_line)
    IN [e EXCEPT !.lines[e.cursor_line + 1] =
                     Slice(line, 0, e.cursor_col - 1) \o Slice(line, e.cursor_col, Len(line)),
                 !.cursor_col = @ - 1]

\* delete_backward with col > 0: remove the one character before the cursor.
backspace_char(e) ==
    LET line == Line(e, e.cursor_line) IN
    IF is_char_boundary(line, e.cursor_col)
    THEN LET p == prev_char_start(line, e.cursor_col)
         IN [e EXCEPT !.lines[e.cursor_line + 1] =
                          Slice(line, 0, p) \o Slice(line, e.cursor_col, Len(line)),
                      !.cursor_col = p]
    ELSE Crash(e)

\* Mutant: the join drops the origin of the previous line, not of the current.
backspace_join_wrong_origin(e) ==
    LET line == Line(e, e.cursor_line)
        prev == Line(e, e.cursor_line - 1)
        removed == VecRemove(e.lines, e.cursor_line)
    IN [e EXCEPT !.line_origins = VecRemove(@, e.cursor_line - 1),
                 !.lines = [removed EXCEPT ![e.cursor_line] = prev \o line],
                 !.cursor_line = @ - 1,
                 !.cursor_col = Len(prev)]

\* delete_backward at col 0 of a line > 0: join the line onto the previous one.
backspace_join(e) ==
    LET line == Line(e, e.cursor_line)
        prev == Line(e, e.cursor_line - 1)
        removed == VecRemove(e.lines, e.cursor_line)
    IN [e EXCEPT !.line_origins = VecRemove(@, e.cursor_line),
                 !.lines = [removed EXCEPT ![e.cursor_line] = prev \o line],
                 !.cursor_line = @ - 1,
                 !.cursor_col = Len(prev)]

delete_backward(e) ==
    IF has_selection(e) THEN delete_selection(e)
    ELSE LET e1 == IF e.cursor_col > 0 THEN backspace_char(e)
                   ELSE IF e.cursor_line > 0 THEN backspace_join(e)
                   ELSE e
         IN IF e1.crashed THEN e1
            ELSE scroll_to_cursor([e1 EXCEPT !.sel_anchor = None])

\* delete_forward without a selection: remove the character after the cursor,
\* or join the next line onto the current one at the end of the line.
forward_edit(e) ==
    LET line == Line(e, e.cursor_line)
        line_len == Len(line)
    IN IF e.cursor_col < line_len
       THEN IF is_char_boundary(line, e.cursor_col)
            THEN LET n == next_char_end(line, e.cursor_col)
                 IN [e EXCEPT !.lines[e.cursor_line + 1] =
                                  Slice(line, 0, e.cursor_col) \o Slice(line, n, line_len),
                              !.sel_anchor = None]
            ELSE Crash(e)
       ELSE IF e.cursor_line + 1 < Len(e.lines)
            THEN LET next_line == Line(e, e.cursor_line + 1)
                     removed == VecRemove(e.lines, e.cursor_line + 1)
                 IN [e EXCEPT !.line_origins = VecRemove(@, e.cursor_line + 1),
                              !.lines = [removed EXCEPT ![e.cursor_line + 1] = line \o next_line],
                              !.sel_anchor = None]
            ELSE [e EXCEPT !.sel_anchor = None]

\* Mutant: delete_forward ends with scroll_to_cursor, as delete_backward does.
delete_forward_scrolls(e) ==
    IF has_selection(e) THEN delete_selection(e)
    ELSE LET e1 == forward_edit(e)
         IN IF e1.crashed THEN e1 ELSE scroll_to_cursor(e1)

delete_forward(e) ==
    IF has_selection(e) THEN delete_selection(e) ELSE forward_edit(e)

\* The first lines of every motion: begin a selection when extending.
\* Mutant: every extending motion anchors the selection anew.
begin_extend_always(e, extend_selection) ==
    IF extend_selection
    THEN [e EXCEPT !.sel_anchor = <<e.cursor_line, e.cursor_col>>]
    ELSE e

begin_extend(e, extend_selection) ==
    IF extend_selection /\ e.sel_anchor = None
    THEN [e EXCEPT !.sel_anchor = <<e.cursor_line, e.cursor_col>>]
    ELSE e

\* The last lines of every motion: drop the anchor unless extending.
end_extend(e, extend_selection) ==
    IF extend_selection THEN e ELSE [e EXCEPT !.sel_anchor = None]

\* Mutant: the collapse leaves the anchor in place.
collapse_to_start_keep_anchor(e) ==
    LET r == selection_range(e)
    IN [e EXCEPT !.cursor_line = r[1], !.cursor_col = r[2]]

\* The collapse of a non-extending motion onto the selection start.
collapse_to_start(e) ==
    LET r == selection_range(e)
    IN [e EXCEPT !.cursor_line = r[1], !.cursor_col = r[2], !.sel_anchor = None]

\* The collapse of a non-extending motion onto the selection end.
collapse_to_end(e) ==
    LET r == selection_range(e)
    IN [e EXCEPT !.cursor_line = r[3], !.cursor_col = r[4], !.sel_anchor = None]

\* Mutant: the step to the left ends with scroll_to_cursor, as a line motion
\* does.
left_step_scrolls(e) ==
    LET line == Line(e, e.cursor_line) IN
    IF e.cursor_col > 0
    THEN IF is_char_boundary(line, e.cursor_col)
         THEN [e EXCEPT !.cursor_col = prev_char_start(line, e.cursor_col)]
         ELSE Crash(e)
    ELSE IF e.cursor_line > 0
         THEN scroll_to_cursor([e EXCEPT !.cursor_line = @ - 1,
                                         !.cursor_col = Len(Line(e, e.cursor_line - 1))])
         ELSE e

\* One character to the left, wrapping to the end of the previous line.
left_step(e) ==
    LET line == Line(e, e.cursor_line) IN
    IF e.cursor_col > 0
    THEN IF is_char_boundary(line, e.cursor_col)
         THEN [e EXCEPT !.cursor_col = prev_char_start(line, e.cursor_col)]
         ELSE Crash(e)
    ELSE IF e.cursor_line > 0
         THEN [e EXCEPT !.cursor_line = @ - 1,
                        !.cursor_col = Len(Line(e, e.cursor_line - 1))]
         ELSE e

\* Mutant: at the end of a line the cursor stays where it is.
right_step_no_wrap(e) ==
    LET line == Line(e, e.cursor_line)
    IN IF e.cursor_col < Len(line)
       THEN IF is_char_boundary(line, e.cursor_col)
            THEN [e EXCEPT !.cursor_col = next_char_end(line, e.cursor_col)]
            ELSE Crash(e)
       ELSE e

\* One character to the right, wrapping to the start of the next line.
right_step(e) ==
    LET line == Line(e, e.cursor_line)
        line_len == Len(line)
    IN IF e.cursor_col < line_len
       THEN IF is_char_boundary(line, e.cursor_col)
            THEN [e EXCEPT !.cursor_col = next_char_end(line, e.cursor_col)]
            ELSE Crash(e)
       ELSE IF e.cursor_line + 1 < Len(e.lines)
            THEN [e EXCEPT !.cursor_line = @ + 1, !.cursor_col = 0]
            ELSE e

\* Mutant: the collapse does not return, so the step is applied on top of it.
move_left_collapse_and_step(e, extend_selection) ==
    LET e1 == begin_extend(e, extend_selection)
        e2 == IF ~extend_selection /\ has_selection(e1) THEN collapse_to_start(e1) ELSE e1
        e3 == left_step(e2)
    IN IF e3.crashed THEN e3 ELSE end_extend(e3, extend_selection)

move_left(e, extend_selection) ==
    LET e1 == begin_extend(e, extend_selection) IN
    IF ~extend_selection /\ has_selection(e1)
    THEN collapse_to_start(e1)
    ELSE LET e2 == left_step(e1)
         IN IF e2.crashed THEN e2 ELSE end_extend(e2, extend_selection)

move_right(e, extend_selection) ==
    LET e1 == begin_extend(e, extend_selection) IN
    IF ~extend_selection /\ has_selection(e1)
    THEN collapse_to_end(e1)
    ELSE LET e2 == right_step(e1)
         IN IF e2.crashed THEN e2 ELSE end_extend(e2, extend_selection)

\* Mutant: the column is kept as it is on the line above, however short.
line_up_unclamped(e) ==
    IF e.cursor_line > 0
    THEN [e EXCEPT !.cursor_line = @ - 1]
    ELSE e

\* The same column on the line above, clamped to that line's length.
line_up(e) ==
    IF e.cursor_line > 0
    THEN clamp_cursor([e EXCEPT !.cursor_line = @ - 1])
    ELSE e

\* Mutant: on the last line the cursor goes to the end of the line.
line_down_to_end(e) ==
    IF e.cursor_line + 1 < Len(e.lines)
    THEN clamp_cursor([e EXCEPT !.cursor_line = @ + 1])
    ELSE [e EXCEPT !.cursor_col = Len(Line(e, e.cursor_line))]

\* The same column on the line below, clamped to that line's length.
line_down(e) ==
    IF e.cursor_line + 1 < Len(e.lines)
    THEN clamp_cursor([e EXCEPT !.cursor_line = @ + 1])
    ELSE e

\* Mutant: the collapse returns early, as in move_left, and no line is moved.
move_up_collapse_only(e, extend_selection) ==
    LET e1 == begin_extend(e, extend_selection) IN
    IF ~extend_selection /\ has_selection(e1)
    THEN collapse_to_start(e1)
    ELSE scroll_to_cursor(end_extend(line_up(e1), extend_selection))

move_up(e, extend_selection) ==
    LET e1 == begin_extend(e, extend_selection)
        e2 == IF ~extend_selection /\ has_selection(e1)
              THEN collapse_to_start(e1)
              ELSE e1
    IN scroll_to_cursor(end_extend(line_up(e2), extend_selection))

move_down(e, extend_selection) ==
    LET e1 == begin_extend(e, extend_selection)
        e2 == IF ~extend_selection /\ has_selection(e1)
              THEN collapse_to_end(e1)
              ELSE e1
    IN scroll_to_cursor(end_extend(line_down(e2), extend_selection))

\* Mutant: with a selection and no extension the motion collapses onto the
\* selection start and returns, as move_left does.
move_to_beginning_of_line_collapses(e, extend_selection) ==
    LET e1 == begin_extend(e, extend_selection) IN
    IF ~extend_selection /\ has_selection(e1)
    THEN collapse_to_start(e1)
    ELSE end_extend([e1 EXCEPT !.cursor_col = 0], extend_selection)

move_to_beginning_of_line(e, extend_selection) ==
    end_extend([begin_extend(e, extend_selection) EXCEPT !.cursor_col = 0],
               extend_selection)

move_to_end_of_line(e, extend_selection) ==
    end_extend([begin_extend(e, extend_selection)
                   EXCEPT !.cursor_col = Len(Line(e, e.cursor_line))],
               extend_selection)

\* copy_to_clipboard leaves the editor alone; the selected text goes to the
\* system clipboard, which other programs share.
copy_to_clipboard(e) ==
    IF ~has_selection(e) THEN e
    ELSE IF selected_text_ok(e) THEN e ELSE Crash(e)

cut_to_clipboard(e) ==
    LET e1 == copy_to_clipboard(e) IN
    IF e1.crashed THEN e1
    ELSE IF has_selection(e1) THEN delete_selection(e1) ELSE e1

\* floor(log10(n)) + 1 for the line counts within reach.
DigitCount(n) == IF n < 10 THEN 1 ELSE IF n < 100 THEN 2 ELSE 3

gutter_width(e) ==
    LET digits == IF e.lines = <<>> THEN 2 ELSE Max(DigitCount(Len(e.lines)), 2)
    IN digits * CharWidth + GutterPad

\* hone_editor_measure_text on a monospace font: one cell per character.
measure_text(s) == IF s = <<>> THEN 0 ELSE CharWidth * NumChars(s)

Abs(x) == IF x < 0 THEN -x ELSE x

\* ((y + scroll_y) / line_height).floor() as usize, then min(len - 1):
\* the cast saturates a negative quotient to 0.
PointerLine(e, y) ==
    Min(Max((y + e.scroll_y) \div LineHeight, 0), Max(Len(e.lines) - 1, 0))

\* The nearest-column search over the characters from byte_idx on.
RECURSIVE BestCol(_, _, _, _, _)
BestCol(line_str, byte_idx, text_x, best_col, best_dist) ==
    IF byte_idx >= Len(line_str) THEN best_col
    ELSE LET end == byte_idx + len_utf8(line_str[byte_idx + 1])
             px == measure_text(Slice(line_str, 0, end))
             dist == Abs(text_x - px)
             col == IF dist < best_dist THEN end ELSE best_col
             d == IF dist < best_dist THEN dist ELSE best_dist
         IN IF px > text_x + CharWidth THEN col
            ELSE BestCol(line_str, end, text_x, col, d)

click_to_cursor(e, x, y) ==
    LET line == PointerLine(e, y)
        text_x == x - gutter_width(e)
        col == IF text_x <= 0 THEN 0
               ELSE BestCol(Line(e, line), 0, text_x, 0, text_x)
    IN [e EXCEPT !.cursor_line = line, !.cursor_col = col, !.sel_anchor = None]

\* (text_x / char_width).round() for text_x > 0: half rounds away from zero.
RoundDiv(a, b) == (2 * a + b) \div (2 * b)

\* Mutant: the column is not clamped to the length of the line.
tap_to_cursor_unclamped(e, x, y) ==
    LET text_x == x - gutter_width(e)
    IN [e EXCEPT !.cursor_line = PointerLine(e, y),
                 !.cursor_col = IF text_x <= 0 THEN 0
                                ELSE RoundDiv(text_x, CharWidth),
                 !.sel_anchor = None]

tap_to_cursor(e, x, y) ==
    LET line == PointerLine(e, y)
        text_x == x - gutter_width(e)
        col == IF text_x <= 0 THEN 0
               ELSE Min(RoundDiv(text_x, CharWidth), Len(Line(e, line)))
    IN [e EXCEPT !.cursor_line = line, !.cursor_col = col, !.sel_anchor = None]

\* render() slices the cursor line at cursor_col and the selected lines at the
\* selection columns to measure them; a slice off a character boundary panics.
\* &self.lines[self.cursor_line][..self.cursor_col] does not panic.
cursor_ok(e) ==
    e.cursor_col = 0 \/ is_char_boundary(Line(e, e.cursor_line), e.cursor_col)

\* The prefix slices at the two ends of the selection do not panic.
selection_ok(e) ==
    LET r == selection_range(e)
    IN /\ r[2] = 0 \/ is_char_boundary(Line(e, r[1]), r[2])
       /\ r[4] = 0 \/ is_char_boundary(Line(e, r[3]), r[4])

render_ok(e) ==
    /\ cursor_ok(e)
    /\ has_selection(e) => selection_ok(e)

\* One call on the EditorView (line is the line number of a render_line, 0
\* for the other calls).
Call(name, line) == [call |-> name, line |-> line]

\* A begin_frame has not been followed by its end_frame.
frame_open(e) ==
    e.calls # <<>> /\ e.calls[Len(e.calls)].call # "end_frame"

\* Mutant: begin_frame does not clear the selection list, and the rectangles
\* of the frame before stay in the new frame.
begin_frame_keeps_selection(e) ==
    LET old == { k \in 1..Len(e.calls) : e.calls[k].call = "set_selection" }
    IN [e EXCEPT !.calls =
           << Call("begin_frame", 0) >> \o
           (IF old = {} THEN <<>>
            ELSE << e.calls[CHOOSE k \in old : \A k2 \in old : k2 <= k] >>)]

\* begin_frame starts the record of a new frame; were the frame before it
\* still open, the record would go on.
begin_frame(e) ==
    [e EXCEPT !.calls = IF frame_open(e)
                        THEN Append(@, Call("begin_frame", 0))
                        ELSE << Call("begin_frame", 0) >>]

\* Mutant: the frame always starts at the first line of the buffer.
first_visible_top(e) == 0

\* (self.scroll_y / self.line_height).floor() as usize
first_visible(e) == Max(0, e.scroll_y) \div LineHeight

\* (self.view_height / self.line_height).ceil() as usize + 2
visible_count == (ViewHeight + LineHeight - 1) \div LineHeight + 2

last_visible(e) == Min(first_visible(e) + visible_count, Len(e.lines))

\* hone_editor_render_line(editor, line_number, text, tokens, y_offset) for
\* line index i; the tokens are a function of the line and are left out.
render_line(e, i) ==
    [call |-> "render_line", line |-> i + 1, text |-> Line(e, i),
     y |-> i * LineHeight - e.scroll_y]

\* for i in first_visible..last_visible { hone_editor_render_line(..) }
render_lines(e) ==
    [e EXCEPT !.calls =
        @ \o [k \in 1..Max(0, last_visible(e) - first_visible(e)) |->
                 render_line(e, first_visible(e) + k - 1)]]

\* gutter_w + the measured width of the line up to byte column col.
x_at(e, line_idx, col) ==
    IF col = 0 THEN gutter_width(e)
    ELSE gutter_width(e) + measure_text(Slice(Line(e, line_idx), 0, col))

\* hone_editor_set_cursor(editor, cursor_x, cursor_y, 0)
set_cursor(e) ==
    [e EXCEPT !.calls =
        Append(@, [call |-> "set_cursor", line |-> 0,
                   x |-> x_at(e, e.cursor_line, e.cursor_col),
                   y |-> e.cursor_line * LineHeight - e.scroll_y])]

\* The rectangle of line line_idx of the selection r, before the w > 0 test.
rect(e, r, line_idx) ==
    LET col_start == IF line_idx = r[1] THEN r[2] ELSE 0
        col_end == IF line_idx = r[3] THEN r[4] ELSE Len(Line(e, line_idx))
        x_start == x_at(e, line_idx, col_start)
        x_end == x_at(e, line_idx, col_end)
    IN [x |-> x_start, y |-> line_idx * LineHeight - e.scroll_y,
        w |-> Max(x_end - x_start, 0), h |-> LineHeight]

\* Mutant: every covered line gets its rectangle, whatever its width.
wide_or_not(rc) == TRUE

\* if w > 0.0 { rects.push(..) }
wide(rc) == rc.w > 0

\* for line_idx in sl..=el { .. }
rects(e) ==
    LET r == selection_range(e)
    IN SelectSeq([k \in 1..(r[3] - r[1] + 1) |-> rect(e, r, r[1] + k - 1)], wide)

\* hone_editor_set_selection(editor, "[rects]")
set_selection(e) ==
    [e EXCEPT !.calls =
        Append(@, [call |-> "set_selection", line |-> 0, rects |-> rects(e)])]

end_frame(e) == [e EXCEPT !.calls = Append(@, Call("end_frame", 0))]

\* EditorView.max_line_number after the calls cs of a frame: begin_frame sets
\* it to 0 and render_line raises it to the largest line number it is given.
max_line_number(cs) ==
    LET numbers == { cs[k].line : k \in { k \in 1..Len(cs) : cs[k].call = "render_line" } }
    IN IF numbers = {} THEN 0
       ELSE CHOOSE m \in numbers : \A n \in numbers : n <= m

\* EditorView::gutter_width, the width draw() places the line text at.
view_gutter_width(cs) ==
    LET digits == IF max_line_number(cs) <= 0 THEN 2
                  ELSE Max(DigitCount(max_line_number(cs)), 2)
    IN digits * CharWidth + GutterPad

\* The frame is built from the state the operation left; a panic in a slice
\* ends it where it stands.
render(e) ==
    IF e.crashed THEN e
    ELSE LET e1 == render_lines(begin_frame(e))
         IN IF ~cursor_ok(e) THEN Crash(e1)
            ELSE LET e2 == set_cursor(e1)
                 IN IF ~has_selection(e) THEN end_frame(e2)
                    ELSE IF ~selection_ok(e) THEN Crash(e2)
                    ELSE end_frame(set_selection(e2))

(* --------------------------- token remapping --------------------------- *)

\* A token list is a sequence of spans [s, e, c, st]: what the hand-written
\* parser extracts from each {...} object of the JSON text.  NoInt stands for
\* an "s" or "e" that extract_json_int cannot read (its None), "" for a "c"
\* or "st" that extract_json_str does not find.  The empty sequence is the
\* text "[]".
NoInt == -1

default_c == "#d4d4d4"
default_st == "normal"

\* b.is_ascii_alphanumeric() || b == b'_' on the bytes in use: the letters a
\* and b are word bytes, the space "sp" and the bytes of e-acute are not.
is_word_byte(b) == b \in {"a", "b"}

\* while prefix_len < orig_len && prefix_len < curr_len && orig[p] == curr[p]
RECURSIVE common_prefix(_, _, _)
common_prefix(orig, curr, prefix_len) ==
    IF /\ prefix_len < Len(orig)
       /\ prefix_len < Len(curr)
       /\ orig[prefix_len + 1] = curr[prefix_len + 1]
    THEN common_prefix(orig, curr, prefix_len + 1)
    ELSE prefix_len

\* Mutant: the suffix scan is bounded by the lengths of the texts, not by
\* what the prefix has left.
RECURSIVE common_suffix_unclamped(_, _, _, _)
common_suffix_unclamped(orig, curr, prefix_len, suffix_len) ==
    IF /\ suffix_len < Len(orig)
       /\ suffix_len < Len(curr)
       /\ orig[Len(orig) - suffix_len] = curr[Len(curr) - suffix_len]
    THEN common_suffix_unclamped(orig, curr, prefix_len, suffix_len + 1)
    ELSE suffix_len

\* while suffix_len < orig_len - prefix_len && suffix_len < curr_len - prefix_len
\*       && orig[orig_len - 1 - suffix_len] == curr[curr_len - 1 - suffix_len]
RECURSIVE common_suffix(_, _, _, _)
common_suffix(orig, curr, prefix_len, suffix_len) ==
    IF /\ suffix_len < Len(orig) - prefix_len
       /\ suffix_len < Len(curr) - prefix_len
       /\ orig[Len(orig) - suffix_len] = curr[Len(curr) - suffix_len]
    THEN common_suffix(orig, curr, prefix_len, suffix_len + 1)
    ELSE suffix_len

\* Mutant: the prefix is not taken back to a word boundary.
shrink_prefix_skipped(orig, prefix_len) == prefix_len

\* while prefix_len > 0 && is_word_byte(orig[prefix_len - 1]) { prefix_len -= 1 }
RECURSIVE shrink_prefix(_, _)
shrink_prefix(orig, prefix_len) ==
    IF prefix_len > 0 /\ is_word_byte(orig[prefix_len])
    THEN shrink_prefix(orig, prefix_len - 1)
    ELSE prefix_len

\* Mutant: the suffix is not taken forward to a word boundary.
shrink_suffix_skipped(orig, suffix_len) == suffix_len

\* while suffix_len > 0 && is_word_byte(orig[orig_len - suffix_len]) { suffix_len -= 1 }
RECURSIVE shrink_suffix(_, _)
shrink_suffix(orig, suffix_len) ==
    IF suffix_len > 0 /\ is_word_byte(orig[Len(orig) - suffix_len + 1])
    THEN shrink_suffix(orig, suffix_len - 1)
    ELSE suffix_len

\* The prefix and suffix lengths remap works with.
prefix_of(orig, curr) == shrink_prefix(orig, common_prefix(orig, curr, 0))

suffix_of(orig, curr) ==
    shrink_suffix(orig, common_suffix(orig, curr, common_prefix(orig, curr, 0), 0))

\* Original position p lies in the kept prefix or suffix (else: continue).
is_mapped(p, prefix_len, orig_change_end) ==
    p < prefix_len \/ p >= orig_change_end

\* Mutant: a suffix position is carried over without the length delta.
map_position_unshifted(p, prefix_len, delta) == p

\* The current position cp of a mapped original position p.
map_position(p, prefix_len, delta) ==
    IF p < prefix_len THEN p ELSE p + delta

\* for p in s..e.min(orig_len) { ... colors[cp] = c; styles[cp] = st; }
paint_span(colors, tok, orig, curr) ==
    IF tok.s = NoInt \/ tok.e = NoInt THEN colors
    ELSE LET c == IF tok.c = "" THEN default_c ELSE tok.c
             st == IF tok.st = "" THEN default_st ELSE tok.st
             prefix_len == prefix_of(orig, curr)
             orig_change_end == Len(orig) - suffix_of(orig, curr)
             delta == Len(curr) - Len(orig)
             mapped == { p \in tok.s..(Min(tok.e, Len(orig)) - 1) :
                            is_mapped(p, prefix_len, orig_change_end) }
             hit == { map_position(p, prefix_len, delta) : p \in mapped }
         IN \* if cp >= 0 && cp < curr_len { colors[cp] = c; styles[cp] = st; }
            [cp \in 1..Len(curr) |->
                IF (cp - 1) \in hit THEN <<c, st>> ELSE colors[cp]]

\* The spans are walked in order; a later span overwrites an earlier one.
RECURSIVE paint_all(_, _, _, _)
paint_all(colors, tokens, orig, curr) ==
    IF tokens = <<>> THEN colors
    ELSE paint_all(paint_span(colors, Head(tokens), orig, curr),
                   Tail(tokens), orig, curr)

\* Mutant: the loop stops before j = curr_len, so the last run is never closed.
RECURSIVE coalesce_exclusive(_, _, _)
coalesce_exclusive(colors, span_start, j) ==
    IF j >= Len(colors) THEN <<>>
    ELSE IF colors[j + 1] # colors[span_start + 1]
         THEN << [s |-> span_start, e |-> j,
                  c |-> colors[span_start + 1][1],
                  st |-> colors[span_start + 1][2]] >>
              \o coalesce_exclusive(colors, j, j + 1)
         ELSE coalesce_exclusive(colors, span_start, j + 1)

\* for j in 1..=curr_len: close the run [span_start, j) when j is the end or
\* the color or style at j differs from the run's.
RECURSIVE coalesce(_, _, _)
coalesce(colors, span_start, j) ==
    IF j > Len(colors) THEN <<>>
    ELSE IF j = Len(colors) \/ colors[j + 1] # colors[span_start + 1]
         THEN << [s |-> span_start, e |-> j,
                  c |-> colors[span_start + 1][1],
                  st |-> colors[span_start + 1][2]] >>
              \o coalesce(colors, j, j + 1)
         ELSE coalesce(colors, span_start, j + 1)

\* if tokens_json == "[]" || curr_text.is_empty() { return "[]" }
early_return(tokens, curr) == tokens = <<>> \/ curr = <<>>

validate_tokens_json(tokens, orig, curr) ==
    IF early_return(tokens, curr) THEN <<>>
    ELSE LET blank == [cp \in 1..Len(curr) |-> <<default_c, default_st>>]
         IN coalesce(paint_all(blank, tokens, orig, curr), 0, 1)

\* The tokens render hands to render_line for line idx: the stored ones when
\* the line is as its origin was, else the remapped ones.
tokens_for_line(e, idx) ==
    LET origin == e.line_origins[idx + 1]
        text == e.original_lines[origin + 1][1]
        tokens == e.original_lines[origin + 1][2]
        current_text == Line(e, idx)
    IN IF current_text = text THEN tokens
       ELSE validate_tokens_json(tokens, text, current_text)

(* ------------------------------ inputs --------------------------------- *)

\* The characters typed or pasted: a, e-acute and the newline.
Chars == { <<"a">>, <<"c3", "a9">>, <<"nl">> }

RECURSIVE TextsOfLen(_)
TextsOfLen(n) ==
    IF n = 0 THEN { <<>> }
    ELSE { c \o t : c \in Chars, t \in TextsOfLen(n - 1) }

\* What the keyboard commits: one character at a time.
Typed == Chars

\* What a clipboard read may deliver: nothing, or text of several characters
\* and lines.
Pasted == { <<>>, <<"a", "c3", "a9">>, <<"c3", "a9", "nl">>, <<"nl", "a">>,
            <<"nl", "nl">> }

\* Pointer positions: left of the view, in the gutter, and over the text cells.
PointerXs(e) ==
    {-1} \cup { gutter_width(e) + dx : dx \in {1, CharWidth, 2 * CharWidth + 1} }
PointerYs == { -1, LineHeight, (MaxFlat + 1) * LineHeight }

\* One wheel notch up or down.
ScrollDeltas == { -LineHeight, LineHeight }

RECURSIVE FlatLen(_)
FlatLen(ls) ==
    IF ls = <<>> THEN -1 ELSE Len(Head(ls)) + 1 + FlatLen(Tail(ls))

(* ------------------------------ actions -------------------------------- *)

\* No callback runs once the process has aborted.
Live == ~crashed

\* A callback returns with the editor in state e (the buffer kept within the
\* explored size).
Deliver(e) ==
    /\ FlatLen(e.lines) <= MaxFlat
    /\ lines' = e.lines
    /\ original_lines' = e.original_lines
    /\ line_origins' = e.line_origins
    /\ cursor_line' = e.cursor_line
    /\ cursor_col' = e.cursor_col
    /\ sel_anchor' = e.sel_anchor
    /\ scroll_y' = e.scroll_y
    /\ crashed' = e.crashed
    /\ calls' = e.calls

\* An input callback returns: the editor is in state e and the clipboard
\* reads are as they were.
Return(e) ==
    /\ Deliver(e)
    /\ UNCHANGED <<remap_vars, paste_vars>>

\* The editor as DemoEditor::new builds it, before anything was drawn.
NewEditor ==
    [lines |-> InitialContent,
     original_lines |-> initial_content,
     line_origins |-> [i \in 1..Len(InitialContent) |-> i - 1],
     cursor_line |-> 0, cursor_col |-> 0, sel_anchor |-> None,
     scroll_y |-> 0, crashed |-> FALSE, calls |-> <<>>]

\* The window is presented after the initial render.
Init ==
    /\ lines = InitialContent
    /\ original_lines = initial_content
    /\ line_origins = [i \in 1..Len(InitialContent) |-> i - 1]
    /\ cursor_line = 0
    /\ cursor_col = 0
    /\ sel_anchor = None
    /\ scroll_y = 0
    /\ crashed = FALSE
    /\ calls = render(NewEditor).calls
    /\ tokens_json = <<>>
    /\ orig_text = <<>>
    /\ curr_text = <<>>
    /\ remapped = <<>>
    /\ returned = FALSE
    /\ paste_reads = 0

OnTextInput ==
    /\ Live
    /\ \E text \in Typed : Return(render(insert_text(St, text)))

InsertNewline ==
    /\ Live
    /\ Return(render(insert_newline(St)))

DeleteBackward ==
    /\ Live
    /\ Return(render(delete_backward(St)))

DeleteForward ==
    /\ Live
    /\ Return(render(delete_forward(St)))

MoveLeft ==
    /\ Live
    /\ \E ext \in BOOLEAN : Return(render(move_left(St, ext)))

MoveRight ==
    /\ Live
    /\ \E ext \in BOOLEAN : Return(render(move_right(St, ext)))

MoveUp ==
    /\ Live
    /\ \E ext \in BOOLEAN : Return(render(move_up(St, ext)))

MoveDown ==
    /\ Live
    /\ \E ext \in BOOLEAN : Return(render(move_down(St, ext)))

MoveToBeginningOfLine ==
    /\ Live
    /\ \E ext \in BOOLEAN : Return(render(move_to_beginning_of_line(St, ext)))

MoveToEndOfLine ==
    /\ Live
    /\ \E ext \in BOOLEAN : Return(render(move_to_end_of_line(St, ext)))

SelectAll ==
    /\ Live
    /\ Return(render(select_all(St)))

CancelOperation ==
    /\ Live
    /\ Return(render([St EXCEPT !.sel_anchor = None]))

Copy ==
    /\ Live
    /\ Return(render(copy_to_clipboard(St)))

Cut ==
    /\ Live
    /\ Return(render(cut_to_clipboard(St)))

\* "paste:" only starts the clipboard read and returns: the editor is left as
\* it is and nothing is rendered.  Any number of reads may be outstanding.
PasteRequest ==
    /\ Live
    /\ UNCHANGED vars

\* A clipboard read started earlier completes, at any later point between two
\* callbacks, and its text is inserted and rendered.  (A read that fails or
\* delivers no text leaves the editor as it is.)
PasteComplete ==
    /\ Live
    /\ \E text \in Pasted : Return(render(insert_text(St, text)))

OnMouseDown ==
    /\ Live
    /\ \E x \in PointerXs(St), y \in PointerYs :
          Return(render(click_to_cursor(St, x, y)))

OnTouchDown ==
    /\ Live
    /\ \E x \in PointerXs(St), y \in PointerYs :
          Return(render(tap_to_cursor(St, x, y)))

OnScroll ==
    /\ Live
    /\ \E dy \in ScrollDeltas :
          Return(render(clamp_scroll([St EXCEPT !.scroll_y = @ + dy])))

Next ==
    \/ OnTextInput
    \/ InsertNewline
    \/ DeleteBackward
    \/ DeleteForward
    \/ MoveLeft
    \/ MoveRight
    \/ MoveUp
    \/ MoveDown
    \/ MoveToBeginningOfLine
    \/ MoveToEndOfLine
    \/ SelectAll
    \/ CancelOperation
    \/ Copy
    \/ Cut
    \/ PasteRequest
    \/ PasteComplete
    \/ OnMouseDown
    \/ OnTouchDown
    \/ OnScroll

Spec == Init /\ [][Next]_vars

(* ------------------- the token remapper on its own --------------------- *)

\* The bytes of the lines handed to the remapper: two letters and the space.
RemapBytes == {"a", "b", "sp"}

RECURSIVE LinesOfLen(_)
LinesOfLen(n) ==
    IF n = 0 THEN { <<>> }
    ELSE { <<b>> \o t : b \in RemapBytes, t \in LinesOfLen(n - 1) }

\* The original lines: every text of at most MaxLine bytes.
OrigTexts == UNION { LinesOfLen(n) : n \in 0..MaxLine }

\* What an edit puts in the place of a range: nothing, one byte or two bytes.
Replacements == LinesOfLen(0) \cup LinesOfLen(1) \cup LinesOfLen(2)

\* The current lines of an original line: any range of it replaced (a
\* deletion, an insertion, a replacement, or no edit at all).
CurrTexts(orig) ==
    { t \in { SubSeq(orig, 1, i) \o r \o SubSeq(orig, j + 1, Len(orig)) :
                 i \in 0..Len(orig), j \in 0..Len(orig), r \in Replacements } :
        Len(t) <= MaxLine }

\* The tokenizer's spans for a line, as initial_content() stores them: one span
\* per word, keyword blue or identifier blue, and (with_gaps = FALSE) one
\* default span per stretch between the words.
Tokenized(text, with_gaps) ==
    LET class == [k \in 1..Len(text) |->
                     IF is_word_byte(text[k]) THEN <<"word", "word">>
                     ELSE <<default_c, default_st>>]
        runs == coalesce(class, 0, 1)
        word(t) == IF t.s % 2 = 0
                   THEN [t EXCEPT !.c = keyword_c, !.st = "normal"]
                   ELSE [t EXCEPT !.c = ident_c, !.st = "italic"]
        colored == [k \in 1..Len(runs) |->
                       IF runs[k].c = "word" THEN word(runs[k]) ELSE runs[k]]
    IN IF with_gaps THEN SelectSeq(colored, LAMBDA t : t.c # default_c)
       ELSE colored

\* The token lists tried with an original line of n bytes: none, the
\* tokenizer's (with and without gaps), and lists no tokenizer would write:
\* a span past the end of the line, overlapping spans, spans out of order, a
\* span with unreadable bounds, a span without color and style.
TokenLists(orig) ==
    LET n == Len(orig) IN
    { <<>>,
      Tokenized(orig, TRUE),
      Tokenized(orig, FALSE),
      << Span(0, n + 1, keyword_c, "normal") >>,
      << Span(0, n, keyword_c, "normal"), Span(1, n, ident_c, "italic") >>,
      << Span(1, n, ident_c, "italic"), Span(0, 1, keyword_c, "normal") >>,
      << Span(NoInt, 1, keyword_c, "normal"), Span(0, 1, "", "") >>,
      << Span(0, n, default_c, default_st) >> }

RemapInit ==
    /\ lines = InitialContent
    /\ original_lines = initial_content
    /\ line_origins = [i \in 1..Len(InitialContent) |-> i - 1]
    /\ cursor_line = 0
    /\ cursor_col = 0
    /\ sel_anchor = None
    /\ scroll_y = 0
    /\ crashed = FALSE
    /\ calls = render(NewEditor).calls
    /\ orig_text \in OrigTexts
    /\ curr_text \in CurrTexts(orig_text)
    /\ tokens_json \in TokenLists(orig_text)
    /\ remapped = <<>>
    /\ returned = FALSE
    /\ paste_reads = 0

\* The call returns its result.
ValidateTokens ==
    /\ ~returned
    /\ remapped' = validate_tokens_json(tokens_json, orig_text, curr_text)
    /\ returned' = TRUE
    /\ UNCHANGED <<editor_vars, tokens_json, orig_text, curr_text, paste_vars>>

RemapNext == ValidateTokens

RemapSpec == RemapInit /\ [][RemapNext]_vars

(* ------------------ paste, with the reads counted ---------------------- *)

\* "paste:" calls read_text_async and returns without a redraw: one more read
\* is outstanding and the editor is as it was.
PasteRequested ==
    /\ Live
    /\ paste_reads < MaxReads
    /\ paste_reads' = paste_reads + 1
    /\ UNCHANGED <<editor_vars, remap_vars>>

\* The callback of a read runs between two input callbacks.  With
\* Ok(Some(text)) it calls insert_text and render on the editor as it is
\* then; with anything else it does nothing.
PasteRead ==
    /\ Live
    /\ paste_reads > 0
    /\ paste_reads' = paste_reads - 1
    /\ \/ \E text \in Pasted : Deliver(render(insert_text(St, text)))
       \/ UNCHANGED editor_vars
    /\ UNCHANGED remap_vars

PasteNext ==
    \/ OnTextInput
    \/ DeleteBackward
    \/ DeleteForward
    \/ MoveLeft
    \/ MoveRight
    \/ MoveUp
    \/ MoveDown
    \/ PasteRequested
    \/ PasteRead

PasteSpec == Init /\ [][PasteNext]_vars

(* ------------------- long buffers and their gutter --------------------- *)

\* A callback returns with the editor in state e (the buffer kept within
\* MaxCount lines).
DeliverLong(e) ==
    /\ Len(e.lines) <= MaxCount
    /\ lines' = e.lines
    /\ original_lines' = e.original_lines
    /\ line_origins' = e.line_origins
    /\ cursor_line' = e.cursor_line
    /\ cursor_col' = e.cursor_col
    /\ sel_anchor' = e.sel_anchor
    /\ scroll_y' = e.scroll_y
    /\ crashed' = e.crashed
    /\ calls' = e.calls
    /\ UNCHANGED <<remap_vars, paste_vars>>

\* "insertNewline:" on a buffer that may grow long.
LongInsertNewline ==
    /\ Live
    /\ DeliverLong(render(insert_newline(St)))

\* on_scroll on a buffer that may be long.
LongScroll ==
    /\ Live
    /\ \E dy \in ScrollDeltas :
          DeliverLong(render(clamp_scroll([St EXCEPT !.scroll_y = @ + dy])))

GutterNext ==
    \/ LongInsertNewline
    \/ LongScroll

GutterSpec == Init /\ [][GutterNext]_vars

(* ------------------------------ claims --------------------------------- *)

\* C1: after every operation line_origins has exactly as many entries as
\* lines.
C1_OriginsMatchLines == Len(line_origins) = Len(lines)

\* C1 witness: lines were joined away (origin 1 is gone) and split again
\* (three or more lines share origin 0).
C1_Witness ==
    /\ Len(lines) >= 3
    /\ Len(line_origins) = Len(lines)
    /\ \A i \in 1..Len(line_origins) : line_origins[i] = 0

\* C2: after every operation lines is non-empty, cursor.line < lines.len() and
\* cursor.col <= the byte length of the cursor line.
C2_CursorInBuffer ==
    /\ Len(lines) >= 1
    /\ cursor_line >= 0
    /\ cursor_line < Len(lines)
    /\ cursor_col >= 0
    /\ cursor_col <= Len(lines[cursor_line + 1])

\* C2 witness: the cursor came down from a longer line onto a shorter one and
\* sits at its clamped end, with text removed above it.
C2_Witness ==
    /\ ~crashed
    /\ Len(lines) >= 2
    /\ cursor_line = Len(lines) - 1
    /\ cursor_col = Len(lines[cursor_line + 1])
    /\ cursor_col > 0
    /\ lines[1] = <<>>

\* C3 (as claimed): cursor.col is a character boundary of the cursor line after
\* every operation, move_up / move_down and tap_to_cursor included.
C3_CursorOnBoundary == is_char_boundary(lines[cursor_line + 1], cursor_col)

\* C4 (as claimed): every operation runs to completion; no crash state is
\* reachable.
C4_NoCrash == ~crashed

\* C5 (as claimed): after every operation and input event scroll_y lies in
\* [0, max(0, lines.len() * line_height - view_height)].
C5_ScrollClamped ==
    /\ scroll_y >= 0
    /\ scroll_y <= Max(0, Len(lines) * LineHeight - ViewHeight)

(* Helpers of the claims below, stated on the buffer alone. *)

Pos(e) == <<e.cursor_line, e.cursor_col>>

\* The position one character left of (l, c): the nearest boundary before c,
\* else the end of the line above, else (0, 0) itself.
LeftOf(ls, l, c) ==
    IF c > 0
    THEN <<l, CHOOSE b \in 0..(c - 1) :
                 /\ is_char_boundary(ls[l + 1], b)
                 /\ \A b2 \in (b + 1)..(c - 1) : ~is_char_boundary(ls[l + 1], b2)>>
    ELSE IF l > 0 THEN <<l - 1, Len(ls[l])>>
    ELSE <<0, 0>>

\* The same byte column one line up / down, clamped to that line's length.
UpFrom(ls, l, c) == IF l > 0 THEN <<l - 1, Min(c, Len(ls[l]))>> ELSE <<l, c>>
DownFrom(ls, l, c) ==
    IF l + 1 < Len(ls) THEN <<l + 1, Min(c, Len(ls[l + 2]))>> ELSE <<l, c>>

\* The whole buffer as one text, lines joined by the newline byte.
RECURSIVE Flat(_)
Flat(ls) ==
    IF Len(ls) = 1 THEN ls[1] ELSE ls[1] \o <<"nl">> \o Flat(Tail(ls))

\* The offset of position (l, c) in Flat(ls).
RECURSIVE FlatOffset(_, _, _)
FlatOffset(ls, l, c) ==
    IF l = 0 THEN c ELSE Len(ls[1]) + 1 + FlatOffset(Tail(ls), l - 1, c)

\* Texts of at most MaxText characters without a newline.
RECURSIVE PlainOfLen(_)
PlainOfLen(n) ==
    IF n = 0 THEN { <<>> }
    ELSE { c \o t : c \in Chars \ { <<"nl">> }, t \in PlainOfLen(n - 1) }

PlainTexts == UNION { PlainOfLen(n) : n \in 0..MaxText }

\* n calls of delete_backward.
RECURSIVE Backspaces(_, _)
Backspaces(e, n) ==
    IF n = 0 \/ e.crashed THEN e ELSE Backspaces(delete_backward(e), n - 1)

\* C6: with an active selection and extend_selection = FALSE, move_left leaves
\* the cursor exactly at the ordered selection start and move_right exactly at
\* the ordered selection end; the anchor is cleared, no further step is taken
\* and nothing else changes.
C6_CollapseLeftRight ==
    (Live /\ has_selection(St)) =>
        LET r == selection_range(St)
            l == move_left(St, FALSE)
            g == move_right(St, FALSE)
        IN /\ l = [St EXCEPT !.cursor_line = r[1], !.cursor_col = r[2],
                             !.sel_anchor = None]
           /\ g = [St EXCEPT !.cursor_line = r[3], !.cursor_col = r[4],
                             !.sel_anchor = None]

\* C6 witness: a selection over a line break that starts after a two-byte
\* character and ends before a character, so that a step on top of the
\* collapse would have moved the cursor on either side.
C6_Witness ==
    /\ Live
    /\ has_selection(St)
    /\ LET r == selection_range(St)
       IN /\ r[1] < r[3]
          /\ r[2] = 2
          /\ lines[r[1] + 1][2] = "a9"
          /\ r[4] < Len(lines[r[3] + 1])
          /\ Pos(move_left(St, FALSE)) = <<r[1], 2>>
          /\ Pos(move_right(St, FALSE)) = <<r[3], r[4]>>

\* C7 (as claimed): with an active selection and extend_selection = FALSE,
\* move_up leaves the cursor exactly at the selection start and move_down
\* exactly at the selection end, the anchor cleared, no line motion on top.
C7_CollapseOnly ==
    (Live /\ has_selection(St)) =>
        LET r == selection_range(St)
            u == move_up(St, FALSE)
            d == move_down(St, FALSE)
        IN /\ Pos(u) = <<r[1], r[2]>> /\ u.sel_anchor = None
           /\ Pos(d) = <<r[3], r[4]>> /\ d.sel_anchor = None

\* C7 (amended): with an active selection and extend_selection = FALSE,
\* move_up collapses to the selection start and then moves one line up from
\* there (same byte column, clamped to that line's length; no line motion on
\* line 0), move_down collapses to the selection end and then moves one line
\* down from there (none on the last line); the anchor is cleared and the
\* lines and origins are unchanged.
C7_CollapseThenLineMove ==
    (Live /\ has_selection(St)) =>
        LET r == selection_range(St)
            u == move_up(St, FALSE)
            d == move_down(St, FALSE)
        IN /\ Pos(u) = UpFrom(lines, r[1], r[2]) /\ u.sel_anchor = None
           /\ Pos(d) = DownFrom(lines, r[3], r[4]) /\ d.sel_anchor = None
           /\ u.lines = lines /\ u.line_origins = line_origins /\ ~u.crashed
           /\ d.lines = lines /\ d.line_origins = line_origins /\ ~d.crashed

\* C7 witness: the selection has a line above and a line below it, so that both motions move
\* off the selection's line, and the column is clamped on the way up.
C7_Witness ==
    /\ Live
    /\ has_selection(St)
    /\ LET r == selection_range(St)
       IN /\ r[1] > 0
          /\ r[3] + 1 < Len(lines)
          /\ Pos(move_up(St, FALSE)) = <<r[1] - 1, Len(lines[r[1]])>>
          /\ Len(lines[r[1]]) < r[2]
          /\ Pos(move_down(St, FALSE)) = <<r[3] + 1, Min(r[4], Len(lines[r[3] + 2]))>>

\* C8 (as claimed): whenever a selection exists, of two move_left(false) calls
\* in a row the first puts the cursor at the selection start and clears the
\* anchor, the second is an ordinary one-character move left from there, and
\* the position after the second differs from the position after the first.
C8_TwiceLeftDiffer ==
    (Live /\ has_selection(St)) =>
        LET r == selection_range(St)
            f == move_left(St, FALSE)
            g == move_left(f, FALSE)
        IN /\ Pos(f) = <<r[1], r[2]>> /\ f.sel_anchor = None
           /\ Pos(g) = LeftOf(lines, r[1], r[2]) /\ g.sel_anchor = None
           /\ Pos(g) # Pos(f)

\* C8 (amended): the same, but the two positions differ exactly when the
\* selection does not start at (0, 0): there the second call has nowhere to go
\* and is a no-op.
C8_TwiceLeft ==
    (Live /\ has_selection(St)) =>
        LET r == selection_range(St)
            f == move_left(St, FALSE)
            g == move_left(f, FALSE)
        IN /\ Pos(f) = <<r[1], r[2]>> /\ f.sel_anchor = None
           /\ Pos(g) = LeftOf(lines, r[1], r[2]) /\ g.sel_anchor = None
           /\ ~g.crashed /\ g.lines = lines
           /\ (Pos(g) # Pos(f)) <=> (<<r[1], r[2]>> # <<0, 0>>)

\* C8 witness: the selection starts right after a two-byte character, and the
\* second call steps over both of its bytes.
C8_Witness ==
    /\ Live
    /\ has_selection(St)
    /\ LET r == selection_range(St)
       IN /\ r[2] >= 2
          /\ lines[r[1] + 1][r[2]] = "a9"
          /\ sel_anchor = <<r[1], r[2]>>
          /\ Pos(move_left(move_left(St, FALSE), FALSE)) = <<r[1], r[2] - 2>>

\* The cursor is inside a line: text on both sides of it.
MidLine == cursor_col > 0 /\ cursor_col < Len(lines[cursor_line + 1])

\* C9 (as claimed, len(s) the byte length of s as everywhere in this buffer):
\* with no active selection and the cursor inside a line, insert_text(s) for
\* any s without newlines followed by len(s) calls of delete_backward restores
\* every line, the line_origins and the cursor position.
C9_RoundTripBytes ==
    (Live /\ ~has_selection(St) /\ MidLine) =>
        \A s \in PlainTexts :
            LET e == Backspaces(insert_text(St, s), Len(s))
            IN /\ ~e.crashed
               /\ e.lines = lines
               /\ e.line_origins = line_origins
               /\ Pos(e) = <<cursor_line, cursor_col>>

\* C9 (amended): with no active selection and the cursor inside a line,
\* insert_text(s) for any s without newlines followed by one delete_backward
\* per character (code point) of s restores every line, the line_origins and
\* the cursor position.
C9_RoundTripChars ==
    (Live /\ ~has_selection(St) /\ MidLine) =>
        \A s \in PlainTexts :
            LET e == Backspaces(insert_text(St, s), NumChars(s))
            IN /\ ~e.crashed
               /\ e.lines = lines
               /\ e.line_origins = line_origins
               /\ Pos(e) = <<cursor_line, cursor_col>>

\* C9 witness: inside a line that is not the first, a text with a two-byte
\* character is inserted and taken back character by character.
C9_Witness ==
    /\ Live
    /\ ~has_selection(St)
    /\ MidLine
    /\ cursor_line > 0
    /\ LET s == <<"a", "c3", "a9">>
           i == insert_text(St, s)
       IN /\ i.lines[cursor_line + 1] =
                 Slice(lines[cursor_line + 1], 0, cursor_col) \o s
                 \o Slice(lines[cursor_line + 1], cursor_col, Len(lines[cursor_line + 1]))
          /\ Pos(i) = <<cursor_line, cursor_col + 3>>
          /\ Backspaces(i, 2).lines = lines

\* C10: insert_text(s) with an anchor present replaces exactly the selected
\* range by s: the buffer text becomes (text before the selection start) + s +
\* (text after the selection end), the cursor is at the end of the inserted
\* text and the anchor is None; a collapsed anchor (equal to the cursor)
\* selects nothing, so nothing is deleted. Checked for every text of at most
\* two characters, the empty text and line breaks included.
C10_InsertReplacesSelection ==
    (Live /\ sel_anchor # None) =>
        \A s \in TextsOfLen(0) \cup TextsOfLen(1) \cup TextsOfLen(2) :
            LET r == selection_range(St)
                e == insert_text(St, s)
                text == Flat(lines)
                from == FlatOffset(lines, r[1], r[2])
                to == FlatOffset(lines, r[3], r[4])
            IN /\ ~e.crashed
               /\ Flat(e.lines) = SubSeq(text, 1, from) \o s \o SubSeq(text, to + 1, Len(text))
               /\ FlatOffset(e.lines, e.cursor_line, e.cursor_col) = from + Len(s)
               /\ e.cursor_line < Len(e.lines)
               /\ e.cursor_col <= Len(e.lines[e.cursor_line + 1])
               /\ e.sel_anchor = None
               /\ Len(e.line_origins) = Len(e.lines)

\* C10 witness: a selection running backwards over a line break (anchor after
\* the cursor) is replaced by a text that itself holds a line break.
C10_Witness ==
    /\ Live
    /\ has_selection(St)
    /\ sel_anchor[1] > cursor_line
    /\ cursor_col > 0
    /\ sel_anchor[2] < Len(lines[sel_anchor[1] + 1])
    /\ LET e == insert_text(St, <<"c3", "a9", "nl">>)
       IN /\ Len(e.lines) = Len(lines) - (sel_anchor[1] - cursor_line) + 1
          /\ Pos(e) = <<cursor_line + 1, 0>>
          /\ e.lines[cursor_line + 1] =
                 Slice(lines[cursor_line + 1], 0, cursor_col) \o <<"c3", "a9">>

(* Helpers of the claims on single edits. *)

\* v2 is v with the entry at 0-based index idx removed.
IsRemoval(v, v2, idx) ==
    /\ Len(v2) = Len(v) - 1
    /\ \A i \in 1..idx : v2[i] = v[i]
    /\ \A i \in (idx + 1)..Len(v2) : v2[i] = v[i + 1]

\* The end of the code point that starts at boundary c of s: the nearest
\* boundary after c.
RightOf(s, c) ==
    CHOOSE b \in (c + 1)..Len(s) :
        /\ is_char_boundary(s, b)
        /\ \A b2 \in (c + 1)..(b - 1) : ~is_char_boundary(s, b2)

\* Nothing happened to the lines, the origins and the cursor.
Same(e) ==
    /\ ~e.crashed
    /\ e.lines = lines
    /\ e.line_origins = line_origins
    /\ Pos(e) = <<cursor_line, cursor_col>>

\* C11: insert_newline with no selection at cursor (l, c) turns line l into
\* its first c bytes, inserts the tail as a new line l+1, moves the cursor to
\* (l+1, 0), gives line l+1 the origin of line l, and leaves every other line
\* and origin unchanged and in order.
C11_NewlineSplits ==
    (Live /\ ~has_selection(St)) =>
        LET l == cursor_line
            c == cursor_col
            old == lines[l + 1]
            e == insert_newline(St)
        IN /\ ~e.crashed
           /\ Len(e.lines) = Len(lines) + 1
           /\ Len(e.line_origins) = Len(line_origins) + 1
           /\ e.lines[l + 1] = SubSeq(old, 1, c)
           /\ e.lines[l + 2] = SubSeq(old, c + 1, Len(old))
           /\ e.line_origins[l + 1] = line_origins[l + 1]
           /\ e.line_origins[l + 2] = line_origins[l + 1]
           /\ Pos(e) = <<l + 1, 0>>
           /\ \A i \in 1..l :
                 e.lines[i] = lines[i] /\ e.line_origins[i] = line_origins[i]
           /\ \A i \in (l + 2)..Len(lines) :
                 e.lines[i + 1] = lines[i] /\ e.line_origins[i + 1] = line_origins[i]

\* C11 witness: the cursor is inside a line that has a line above it and a
\* line with another origin below it, and the split hands the tail and the
\* origin on to the new line.
C11_Witness ==
    /\ Live
    /\ ~has_selection(St)
    /\ MidLine
    /\ cursor_line > 0
    /\ cursor_line + 1 < Len(lines)
    /\ line_origins[cursor_line + 2] # line_origins[cursor_line + 1]
    /\ LET e == insert_newline(St)
       IN /\ e.lines[cursor_line + 2] # <<>>
          /\ e.lines[cursor_line + 1] # <<>>
          /\ e.line_origins[cursor_line + 2] = line_origins[cursor_line + 1]
          /\ e.line_origins[cursor_line + 3] = line_origins[cursor_line + 2]

\* C12: delete_backward with no selection at (l, 0), l > 0, replaces lines
\* l-1 and l by their concatenation, removes the origin entry of line l while
\* keeping that of line l-1, and puts the cursor at (l-1, old length of line
\* l-1); with col > 0 it removes exactly the one code point before the cursor
\* and moves the cursor to where that code point started.
C12_Backspace ==
    (Live /\ ~has_selection(St)) =>
        LET l == cursor_line
            c == cursor_col
            e == delete_backward(St)
        IN /\ ~e.crashed
           /\ (c = 0 /\ l > 0) =>
                 /\ IsRemoval(line_origins, e.line_origins, l)
                 /\ IsRemoval([lines EXCEPT ![l] = @ \o lines[l + 1]], e.lines, l)
                 /\ Pos(e) = <<l - 1, Len(lines[l])>>
           /\ c > 0 =>
                 LET p == LeftOf(lines, l, c)[2]
                 IN /\ NumChars(SubSeq(lines[l + 1], p + 1, c)) = 1
                    /\ e.lines = [lines EXCEPT ![l + 1] =
                                     SubSeq(@, 1, p) \o SubSeq(@, c + 1, Len(@))]
                    /\ e.line_origins = line_origins
                    /\ Pos(e) = <<l, p>>

\* C12 witness: the cursor is at the start of a non-empty line whose
\* predecessor is non-empty and has another origin; the join keeps the
\* predecessor's origin.
C12_Witness ==
    /\ Live
    /\ ~has_selection(St)
    /\ cursor_col = 0
    /\ cursor_line > 0
    /\ lines[cursor_line] # <<>>
    /\ lines[cursor_line + 1] # <<>>
    /\ line_origins[cursor_line] # line_origins[cursor_line + 1]
    /\ LET e == delete_backward(St)
       IN /\ e.lines[cursor_line] = lines[cursor_line] \o lines[cursor_line + 1]
          /\ e.line_origins[cursor_line] = line_origins[cursor_line]
          /\ Len(e.line_origins) = Len(line_origins) - 1

\* C13: delete_selection over the ordered range (sl,sc)-(el,ec), whichever of
\* anchor and cursor comes first, leaves line sl equal to old
\* lines[sl][..sc] + old lines[el][ec..], removes lines sl+1..el together with
\* their origin entries, keeps the origin of line sl and every line and origin
\* outside the range, puts the cursor at (sl, sc) and clears the anchor.
C13_DeleteSelection ==
    (Live /\ sel_anchor # None) =>
        LET r == selection_range(St)
            sl == r[1]
            sc == r[2]
            el == r[3]
            ec == r[4]
            e == delete_selection(St)
        IN /\ ~e.crashed
           /\ PosLe(sl, sc, el, ec)
           /\ {<<sl, sc>>, <<el, ec>>} = {sel_anchor, <<cursor_line, cursor_col>>}
           /\ Len(e.lines) = Len(lines) - (el - sl)
           /\ Len(e.line_origins) = Len(line_origins) - (el - sl)
           /\ e.lines[sl + 1] = SubSeq(lines[sl + 1], 1, sc)
                                \o SubSeq(lines[el + 1], ec + 1, Len(lines[el + 1]))
           /\ \A i \in 1..sl : e.lines[i] = lines[i]
           /\ \A i \in 1..(sl + 1) : e.line_origins[i] = line_origins[i]
           /\ \A i \in (el + 2)..Len(lines) :
                 /\ e.lines[i - (el - sl)] = lines[i]
                 /\ e.line_origins[i - (el - sl)] = line_origins[i]
           /\ Pos(e) = <<sl, sc>>
           /\ e.sel_anchor = None

\* C13 witness: the anchor lies after the cursor, the selection spans a line
\* break and leaves text on both sides, and a line with its own origin follows
\* the selection.
C13_Witness ==
    /\ Live
    /\ has_selection(St)
    /\ sel_anchor[1] > cursor_line
    /\ sel_anchor[1] + 1 < Len(lines)
    /\ line_origins[sel_anchor[1] + 2] # line_origins[sel_anchor[1] + 1]
    /\ LET e == delete_selection(St)
       IN /\ Len(e.lines) = Len(lines) - (sel_anchor[1] - cursor_line)
          /\ e.line_origins[cursor_line + 2] = line_origins[sel_anchor[1] + 2]
          /\ Pos(e) = <<cursor_line, cursor_col>>

\* C14: delete_forward with no selection leaves the cursor and scroll_y
\* unchanged in every case: it removes the one code point after the cursor,
\* or at the end of a line joins the next line onto the current one, keeping
\* the current line's origin and dropping the next line's origin entry; at the
\* end of the buffer it changes nothing.
C14_DeleteForwardFrame ==
    (Live /\ ~has_selection(St)) =>
        LET l == cursor_line
            c == cursor_col
            old == lines[l + 1]
            e == delete_forward(St)
        IN /\ ~e.crashed
           /\ Pos(e) = <<l, c>>
           /\ e.scroll_y = scroll_y
           /\ c < Len(old) =>
                 /\ e.lines = [lines EXCEPT ![l + 1] =
                                  SubSeq(old, 1, c)
                                  \o SubSeq(old, RightOf(old, c) + 1, Len(old))]
                 /\ e.line_origins = line_origins
           /\ (c = Len(old) /\ l + 1 < Len(lines)) =>
                 /\ IsRemoval(line_origins, e.line_origins, l + 1)
                 /\ IsRemoval([lines EXCEPT ![l + 1] = @ \o lines[l + 2]], e.lines, l + 1)
           /\ (c = Len(old) /\ l + 1 = Len(lines)) =>
                 /\ e.lines = lines
                 /\ e.line_origins = line_origins

\* C14 witness: the view is scrolled away from the cursor, which is at the end
\* of a line followed by a line with another origin; the join leaves the
\* scroll offset where it was, although scroll_to_cursor would move it.
C14_Witness ==
    /\ Live
    /\ ~has_selection(St)
    /\ cursor_col = Len(lines[cursor_line + 1])
    /\ cursor_col > 0
    /\ cursor_line + 1 < Len(lines)
    /\ lines[cursor_line + 2] # <<>>
    /\ line_origins[cursor_line + 2] # line_origins[cursor_line + 1]
    /\ scroll_to_cursor(St).scroll_y # scroll_y
    /\ LET e == delete_forward(St)
       IN /\ e.scroll_y = scroll_y
          /\ e.lines[cursor_line + 1] = lines[cursor_line + 1] \o lines[cursor_line + 2]
          /\ e.line_origins[cursor_line + 1] = line_origins[cursor_line + 1]

\* C15: with no active selection, operations at a buffer edge are no-ops on
\* lines, line_origins and cursor: move_left and delete_backward at (0,0),
\* move_up on line 0, move_down on the last line, move_right and
\* delete_forward at the end of the last line.
C15_EdgeNoOps ==
    (Live /\ ~has_selection(St)) =>
        LET last == Len(lines) - 1
            at_start == cursor_line = 0 /\ cursor_col = 0
            at_end == cursor_line = last /\ cursor_col = Len(lines[last + 1])
        IN /\ at_start =>
                 /\ \A ext \in BOOLEAN : Same(move_left(St, ext))
                 /\ Same(delete_backward(St))
           /\ cursor_line = 0 => \A ext \in BOOLEAN : Same(move_up(St, ext))
           /\ cursor_line = last => \A ext \in BOOLEAN : Same(move_down(St, ext))
           /\ at_end =>
                 /\ \A ext \in BOOLEAN : Same(move_right(St, ext))
                 /\ Same(delete_forward(St))

\* C15 witness: a buffer of one non-empty line with the cursor at (0,0): the
\* line is the first and the last one, so that move_left, delete_backward,
\* move_up and move_down all have nowhere to go.
C15_Witness ==
    /\ Live
    /\ ~has_selection(St)
    /\ Len(lines) = 1
    /\ Len(lines[1]) >= 2
    /\ cursor_line = 0
    /\ cursor_col = 0
    /\ Same(move_left(St, FALSE))
    /\ Same(delete_backward(St))
    /\ Same(move_up(St, FALSE))
    /\ Same(move_down(St, TRUE))

(* Helpers of the claims on the token remapper. *)

\* The (color, style) a span list gives byte p: that of the last readable span
\* over p, with the defaults for a missing color or style and where no span
\* lies.
PaintAt(spans, p) ==
    LET over == { k \in 1..Len(spans) :
                     /\ spans[k].s # NoInt
                     /\ spans[k].e # NoInt
                     /\ spans[k].s <= p
                     /\ p < spans[k].e }
    IN IF over = {} THEN <<default_c, default_st>>
       ELSE LET t == spans[CHOOSE k \in over : \A k2 \in over : k2 <= k]
            IN <<IF t.c = "" THEN default_c ELSE t.c,
                 IF t.st = "" THEN default_st ELSE t.st>>

\* The spans are non-empty, ascending, pairwise disjoint and cover exactly
\* [0, n).
Covers(spans, n) ==
    /\ n = 0 => spans = <<>>
    /\ n > 0 =>
          /\ spans # <<>>
          /\ spans[1].s = 0
          /\ spans[Len(spans)].e = n
    /\ \A k \in 1..Len(spans) : spans[k].s # NoInt /\ spans[k].s < spans[k].e
    /\ \A k \in 1..(Len(spans) - 1) : spans[k].e = spans[k + 1].s

\* The form remap writes: a cover of [0, n) with explicit colors and styles
\* whose neighbouring spans differ in color or style.
OutputForm(spans, n) ==
    /\ n > 0
    /\ Covers(spans, n)
    /\ \A k \in 1..Len(spans) : spans[k].c # "" /\ spans[k].st # ""
    /\ \A k \in 1..(Len(spans) - 1) :
          <<spans[k].c, spans[k].st>> # <<spans[k + 1].c, spans[k + 1].st>>

\* Where the run of word bytes that ends the text starts (Len(text) if the
\* text does not end in a word byte).
TrailingWordStart(text) ==
    CHOOSE k \in 0..Len(text) :
        /\ \A q \in (k + 1)..Len(text) : is_word_byte(text[q])
        /\ k = 0 \/ ~is_word_byte(text[k])

\* [i, j] is a maximal run of word bytes of text (0-based, inclusive).
IsWordRun(text, i, j) ==
    /\ \A q \in i..j : is_word_byte(text[q + 1])
    /\ i = 0 \/ ~is_word_byte(text[i])
    /\ j + 1 = Len(text) \/ ~is_word_byte(text[j + 2])

AllWord(text) == \A q \in 1..Len(text) : is_word_byte(text[q])

\* An edit confined to whole words in the middle of the line: the first a and
\* the last b bytes are unchanged and end resp. start with a non-word byte,
\* and what lies between them is a word (or nothing) before and another word
\* (or nothing) after.
WordEdit(orig, curr, a, b) ==
    /\ a >= 1
    /\ b >= 1
    /\ a + b <= Len(orig)
    /\ a + b <= Len(curr)
    /\ SubSeq(orig, 1, a) = SubSeq(curr, 1, a)
    /\ SubSeq(orig, Len(orig) - b + 1, Len(orig)) = SubSeq(curr, Len(curr) - b + 1, Len(curr))
    /\ ~is_word_byte(orig[a])
    /\ ~is_word_byte(orig[Len(orig) - b + 1])
    /\ AllWord(SubSeq(orig, a + 1, Len(orig) - b))
    /\ AllWord(SubSeq(curr, a + 1, Len(curr) - b))
    /\ SubSeq(orig, a + 1, Len(orig) - b) # SubSeq(curr, a + 1, Len(curr) - b)

\* C16 (as claimed): remap is the identity when the text is unchanged: for
\* every token list and text, remap(tokens, text, text) returns tokens.
C16_RemapIdentity ==
    (returned /\ orig_text = curr_text) => remapped = tokens_json

\* C16 (amended): remap(tokens, text, text) returns tokens exactly when tokens
\* is empty, or text is not empty and tokens is already in the form remap
\* writes (a cover of [0, len) in ascending order, explicit colors and styles,
\* neighbours differing) with the default color and style on the run of word
\* bytes that ends the text.
C16_RemapIdentityOnOutputForm ==
    (returned /\ orig_text = curr_text) =>
        ((remapped = tokens_json) <=>
            \/ tokens_json = <<>>
            \/ /\ OutputForm(tokens_json, Len(curr_text))
               /\ \A p \in TrailingWordStart(curr_text)..(Len(curr_text) - 1) :
                     PaintAt(tokens_json, p) = <<default_c, default_st>>)

\* C16 witness: an unchanged line with a colored word that does not end the
\* line, and a token list of several spans in output form, came back as it
\* was.
C16_Witness ==
    /\ returned
    /\ orig_text = curr_text
    /\ Len(tokens_json) >= 2
    /\ \E k \in 1..Len(tokens_json) : tokens_json[k].c # default_c
    /\ \E q \in 1..Len(curr_text) : is_word_byte(curr_text[q])
    /\ remapped = tokens_json

\* C17: for an edit confined to whole words in the middle of a line, remap
\* keeps the color and style of every byte of the unchanged prefix at its
\* position, keeps those of every byte of the unchanged suffix shifted by
\* delta = curr_len - orig_len, and gives every byte of the changed region
\* the default color and normal style; so every original span lying in the
\* prefix or in the suffix (of a list without overlaps) keeps its color and
\* style there.
C17_WordEditKeepsPrefixAndSuffix ==
    returned =>
        \A a \in 1..Len(orig_text), b \in 1..Len(orig_text) :
            WordEdit(orig_text, curr_text, a, b) =>
                LET delta == Len(curr_text) - Len(orig_text) IN
                /\ \A p \in 0..(a - 1) :
                      PaintAt(remapped, p) = PaintAt(tokens_json, p)
                /\ \A p \in (Len(orig_text) - b)..(Len(orig_text) - 1) :
                      PaintAt(remapped, p + delta) = PaintAt(tokens_json, p)
                /\ \A cp \in a..(Len(curr_text) - b - 1) :
                      PaintAt(remapped, cp) = <<default_c, default_st>>

\* C17 witness: a word between two non-word bytes was replaced by a word of
\* another length; the tokens color a byte of the prefix and, in another
\* color, a byte of the suffix; the result holds the prefix color, the
\* default on the new word, and the suffix color at the shifted position.
C17_Witness ==
    /\ returned
    /\ Len(curr_text) # Len(orig_text)
    /\ \E a \in 1..Len(orig_text), b \in 1..Len(orig_text) :
          /\ WordEdit(orig_text, curr_text, a, b)
          /\ Len(curr_text) - b > a
          /\ Len(orig_text) - b > a
          /\ PaintAt(tokens_json, a - 1) # <<default_c, default_st>>
          /\ PaintAt(tokens_json, Len(orig_text) - 1) # <<default_c, default_st>>
          /\ PaintAt(tokens_json, Len(orig_text) - 1) # PaintAt(tokens_json, a - 1)
          /\ PaintAt(remapped, a - 1) = PaintAt(tokens_json, a - 1)
          /\ PaintAt(remapped, a) = <<default_c, default_st>>
          /\ PaintAt(remapped, Len(curr_text) - 1) = PaintAt(tokens_json, Len(orig_text) - 1)

\* C18 (as claimed): for every input the spans returned by remap are ordered
\* by ascending start, pairwise non-overlapping, and together cover exactly
\* [0, len(current text)).
C18_OutputCovers ==
    returned => Covers(remapped, Len(curr_text))

\* C18 (amended): for every input with a non-empty token list the spans
\* returned by remap are ordered by ascending start, pairwise non-overlapping,
\* and together cover exactly [0, len(current text)); for an empty token list
\* remap returns no span at all, whatever the current text.
C18_OutputCoversUnlessNoTokens ==
    returned =>
        /\ tokens_json # <<>> => Covers(remapped, Len(curr_text))
        /\ tokens_json = <<>> => remapped = <<>>

\* C18 witness: overlapping spans that reach past the end of the original
\* line were remapped onto an edited line, giving more than one span.
C18_Witness ==
    /\ returned
    /\ orig_text # curr_text
    /\ Len(tokens_json) >= 2
    /\ \E k \in 1..Len(tokens_json) : tokens_json[k].e >= Len(orig_text)
    /\ PaintAt(tokens_json, 1) # <<default_c, default_st>>
    /\ \E k \in 1..(Len(tokens_json) - 1) : tokens_json[k + 1].s < tokens_json[k].e
    /\ Len(remapped) >= 3
    /\ Covers(remapped, Len(curr_text))

\* Current position cp lies in the kept prefix or in the kept suffix.
Carried(cp) ==
    \/ cp < prefix_of(orig_text, curr_text)
    \/ cp >= Len(curr_text) - suffix_of(orig_text, curr_text)

\* The original position current position cp is carried over from.
CarriedFrom(cp) ==
    IF cp < prefix_of(orig_text, curr_text) THEN cp
    ELSE cp - (Len(curr_text) - Len(orig_text))

\* C19: in remap output no identifier is half-colored: for every maximal run
\* of word bytes in the current text, either every byte of the run received
\* its color from the original tokens through the prefix/suffix mapping or
\* every byte of the run has the default color.
C19_NoHalfColoredWord ==
    (returned /\ tokens_json # <<>>) =>
        \A i \in 0..(Len(curr_text) - 1), j \in 0..(Len(curr_text) - 1) :
            (i <= j /\ IsWordRun(curr_text, i, j)) =>
                \/ \A cp \in i..j :
                      /\ Carried(cp)
                      /\ PaintAt(remapped, cp) = PaintAt(tokens_json, CarriedFrom(cp))
                      /\ curr_text[cp + 1] = orig_text[CarriedFrom(cp) + 1]
                \/ \A cp \in i..j :
                      /\ ~Carried(cp)
                      /\ PaintAt(remapped, cp) = <<default_c, default_st>>

\* C19 witness: the common prefix ended inside a word, the tokens color every
\* original byte, and the result has a word of two or more bytes all in the
\* default color next to a word that kept its color.
C19_Witness ==
    /\ returned
    /\ common_prefix(orig_text, curr_text, 0) > prefix_of(orig_text, curr_text)
    /\ \A p \in 0..(Len(orig_text) - 1) :
          PaintAt(tokens_json, p) # <<default_c, default_st>>
    /\ \E i \in 0..(Len(curr_text) - 1), j \in 0..(Len(curr_text) - 1) :
          /\ i < j
          /\ IsWordRun(curr_text, i, j)
          /\ \A cp \in i..j : PaintAt(remapped, cp) = <<default_c, default_st>>
    /\ \E i \in 0..(Len(curr_text) - 1), j \in 0..(Len(curr_text) - 1) :
          /\ i <= j
          /\ IsWordRun(curr_text, i, j)
          /\ \A cp \in i..j : PaintAt(remapped, cp) # <<default_c, default_st>>

(* Helpers of the claim on the frame protocol. *)

CallsNamed(name) == { k \in 1..Len(calls) : calls[k].call = name }

\* Line i (0-based) has a pixel row inside the viewport.
InViewport(i) ==
    /\ i * LineHeight < scroll_y + ViewHeight
    /\ (i + 1) * LineHeight > scroll_y

\* The calls since the last completed frame are one whole frame: begin_frame,
\* render_line for ascending lines of the buffer, every line in the viewport
\* among them, one set_cursor, at most one set_selection and only with a
\* selection, end_frame; no second begin_frame and no end_frame in between.
WholeFrame ==
    LET n == Len(calls) IN
    /\ n >= 3
    /\ CallsNamed("begin_frame") = {1}
    /\ CallsNamed("end_frame") = {n}
    /\ Cardinality(CallsNamed("set_cursor")) = 1
    /\ Cardinality(CallsNamed("set_selection")) <= 1
    /\ CallsNamed("set_selection") # {} => has_selection(St)
    /\ \A k \in CallsNamed("render_line"), c \in CallsNamed("set_cursor") : k < c
    /\ \A c \in CallsNamed("set_cursor"), k \in CallsNamed("set_selection") : c < k
    /\ \A k \in CallsNamed("render_line") :
          /\ calls[k].line \in 1..Len(lines)
          /\ (k + 1) \in CallsNamed("render_line") => calls[k + 1].line = calls[k].line + 1
    /\ \A i \in 0..(Len(lines) - 1) :
          InViewport(i) => \E k \in CallsNamed("render_line") : calls[k].line = i + 1

\* C20: every redraw emits begin_frame, then render_line for the visible
\* lines, then exactly one set_cursor, then at most one set_selection (only
\* when a selection is active), then end_frame; after any sequence of input
\* events and paste completions the frames have not nested or interleaved and
\* every begin_frame has its end_frame before the next begin_frame.
C20_FrameOrder == WholeFrame

\* C20, as far as it holds: as long as no redraw has panicked, the calls are
\* one whole frame, with set_selection exactly when a selection is active.
C20_FrameOrderWhileLive ==
    Live => /\ WholeFrame
            /\ has_selection(St) => CallsNamed("set_selection") # {}

\* A redraw that sent the cursor and the selection of a selection of more
\* than one line, with the view scrolled.
C20_LiveFrame ==
    /\ Live
    /\ WholeFrame
    /\ CallsNamed("set_selection") # {}
    /\ scroll_y > 0
    /\ CallsNamed("render_line") # {}

\* A redraw that panicked after begin_frame and render_line: no set_cursor
\* and no end_frame were sent.
C20_BrokenFrame ==
    /\ crashed
    /\ CallsNamed("begin_frame") = {1}
    /\ CallsNamed("end_frame") = {}
    /\ CallsNamed("set_cursor") = {}

(* Helpers of the claim on a paste that races with other input. *)

\* The invariants of the buffer: lines is not empty, line_origins is as long
\* as lines, the cursor is on a line and at a code-point boundary of it.
BufferInvariants ==
    /\ Len(lines) >= 1
    /\ Len(line_origins) = Len(lines)
    /\ cursor_line \in 0..(Len(lines) - 1)
    /\ cursor_col \in 0..Len(lines[cursor_line + 1])
    /\ is_char_boundary(lines[cursor_line + 1], cursor_col)

\* The same without the code-point boundary.
BufferCounts ==
    /\ Len(lines) >= 1
    /\ Len(line_origins) = Len(lines)
    /\ cursor_line \in 0..(Len(lines) - 1)
    /\ cursor_col \in 0..Len(lines[cursor_line + 1])

\* A step in which a clipboard read completes leaves the editor as it was (no
\* text was read) or as insert_text and render leave the editor of that
\* moment; a step in which a read is requested leaves the editor as it was;
\* every other step leaves the outstanding reads as they were.
OneAtATime ==
    /\ paste_reads' < paste_reads =>
          /\ paste_reads' = paste_reads - 1
          /\ \/ UNCHANGED editor_vars
             \/ \E text \in Pasted : Deliver(render(insert_text(St, text)))
    /\ paste_reads' > paste_reads =>
          /\ paste_reads' = paste_reads + 1
          /\ UNCHANGED editor_vars

\* C21: when a paste is requested and other input events are handled before
\* the clipboard read completes, the completion is applied as one ordinary
\* insert_text at the cursor and selection current when the callback fires;
\* events and completions take effect one at a time in delivery order, and
\* the buffer invariants hold after each of them.
C21_PasteRace ==
    [][OneAtATime]_vars /\ [](paste_reads > 0 => BufferInvariants)

\* C21, as far as it holds: the same with the code-point boundary left out
\* of the buffer invariants.
C21_PasteRaceCounts ==
    [][OneAtATime]_vars /\ [](paste_reads > 0 => BufferCounts)

\* A read is outstanding and the redraw of an input event has panicked with
\* the cursor inside a character.
C21_BrokenDuringRace ==
    /\ paste_reads > 0
    /\ crashed
    /\ ~is_char_boundary(lines[cursor_line + 1], cursor_col)

(* Helpers of the claim on pointer positions. *)

\* Pointer abscissas: negative, on the gutter edge, over the first cells, and
\* right of the end of every line.
AnyXs(e) ==
    {-1, gutter_width(e), gutter_width(e) + 1,
     gutter_width(e) + 2 * CharWidth + 1,
     gutter_width(e) + (MaxFlat + 2) * CharWidth}

\* Pointer ordinates: above the view by more than the scroll offset, just
\* above it, on its second row, and below the last line.
AnyYs ==
    {-(MaxFlat + 2) * LineHeight, -1, LineHeight, (MaxFlat + 2) * LineHeight}

\* Pointed(r, x): r is the state of the model after a click or tap at
\* abscissa x; it holds what the claim says of it.
Pointed(r, x) ==
    /\ r.cursor_line >= 0
    /\ r.cursor_line < Len(lines)
    /\ r.cursor_col >= 0
    /\ r.cursor_col <= Len(lines[r.cursor_line + 1])
    /\ (x <= gutter_width(St) \/ lines[r.cursor_line + 1] = <<>>) => r.cursor_col = 0
    /\ r.sel_anchor = None
    /\ r.lines = lines
    /\ r.line_origins = line_origins
    /\ ~r.crashed

\* C22: for every pointer position (x, y), negative coordinates, points below
\* the last line and points right of the line end included, click_to_cursor
\* and tap_to_cursor leave cursor.line < lines.len() and 0 <= cursor.col <=
\* the length of that line, give column 0 when x is at or left of the gutter
\* edge or the line is empty, clear the selection anchor, and change no line
\* and no origin.
C22_PointerInBuffer ==
    Live =>
        \A x \in AnyXs(St), y \in AnyYs :
            /\ Pointed(click_to_cursor(St, x, y), x)
            /\ Pointed(tap_to_cursor(St, x, y), x)

\* C22 witness: with a selection, the view scrolled and a last line that is
\* shorter than the line above, a pointer right of every line end and below
\* the last line puts the cursor at the end of the last line, a pointer at
\* negative coordinates puts it at (0, 0), and a pointer over an empty line
\* right of the gutter gives column 0.
C22_Witness ==
    /\ Live
    /\ has_selection(St)
    /\ scroll_y > 0
    /\ Len(lines) >= 3
    /\ lines[2] = <<>>
    /\ lines[Len(lines)] # <<>>
    /\ LET far_x == gutter_width(St) + (MaxFlat + 2) * CharWidth
           far_y == (MaxFlat + 2) * LineHeight
           last == Len(lines) - 1
       IN /\ Pos(click_to_cursor(St, far_x, far_y)) = <<last, Len(lines[last + 1])>>
          /\ Pos(tap_to_cursor(St, far_x, far_y)) = <<last, Len(lines[last + 1])>>
          /\ Pos(click_to_cursor(St, -1, -far_y)) = <<0, 0>>
          /\ Pos(tap_to_cursor(St, -1, -far_y)) = <<0, 0>>
          /\ \E y \in AnyYs :
                /\ Pos(tap_to_cursor(St, far_x, y)) = <<1, 0>>
                /\ Pos(click_to_cursor(St, far_x, y)) = <<1, 0>>
          /\ click_to_cursor(St, far_x, far_y).sel_anchor = None

(* Helpers of the claims on the motions. *)

Motions == {"left", "right", "up", "down", "line_start", "line_end"}

Motion(m, e, extend_selection) ==
    CASE m = "left" -> move_left(e, extend_selection)
      [] m = "right" -> move_right(e, extend_selection)
      [] m = "up" -> move_up(e, extend_selection)
      [] m = "down" -> move_down(e, extend_selection)
      [] m = "line_start" -> move_to_beginning_of_line(e, extend_selection)
      [] m = "line_end" -> move_to_end_of_line(e, extend_selection)

\* C23: an extending motion made when no anchor exists sets the anchor to the
\* cursor position before the motion, and every following extending motion
\* leaves that anchor unchanged while only the cursor moves (no line and no
\* origin changes), until a non-extending motion, an edit, a click or
\* cancelOperation clears it.
C23_AnchorWhileExtending ==
    Live =>
        /\ \A m \in Motions :
              LET r == Motion(m, St, TRUE) IN
              /\ r.sel_anchor = IF sel_anchor = None
                                THEN <<cursor_line, cursor_col>>
                                ELSE sel_anchor
              /\ r.lines = lines
              /\ r.line_origins = line_origins
              /\ ~r.crashed
        /\ \A m \in Motions : Motion(m, St, FALSE).sel_anchor = None
        /\ \A text \in Typed : insert_text(St, text).sel_anchor = None
        /\ insert_newline(St).sel_anchor = None
        /\ delete_backward(St).sel_anchor = None
        /\ delete_forward(St).sel_anchor = None
        /\ \A x \in PointerXs(St), y \in PointerYs :
              /\ click_to_cursor(St, x, y).sel_anchor = None
              /\ tap_to_cursor(St, x, y).sel_anchor = None

\* C23 witness: a selection made backwards over a line break (the anchor is
\* after the cursor); extending to the left and extending down both move the
\* cursor and keep the anchor, and a plain motion to the right drops it.
C23_Witness ==
    /\ Live
    /\ sel_anchor # None
    /\ sel_anchor[1] > cursor_line
    /\ Pos(move_left(St, TRUE)) # <<cursor_line, cursor_col>>
    /\ move_left(St, TRUE).sel_anchor = sel_anchor
    /\ Pos(move_down(St, TRUE)) # <<cursor_line, cursor_col>>
    /\ move_down(St, TRUE).sel_anchor = sel_anchor
    /\ move_right(St, FALSE).sel_anchor = None

\* C24: after select_all the anchor is (0,0), the cursor is at the end of the
\* last line, and selected_text returns the whole buffer, all lines joined
\* with a newline; in general selected_text returns the text between the
\* ordered selection ends, whether the anchor is before or after the cursor.
C24_SelectedText ==
    Live =>
        /\ LET a == select_all(St) IN
           /\ a.sel_anchor = <<0, 0>>
           /\ Pos(a) = <<Len(lines) - 1, Len(lines[Len(lines)])>>
           /\ a.lines = lines
           /\ a.line_origins = line_origins
           /\ selected_text(a) = Flat(lines)
        /\ sel_anchor # None =>
              LET at_anchor == FlatOffset(lines, sel_anchor[1], sel_anchor[2])
                  at_cursor == FlatOffset(lines, cursor_line, cursor_col)
                  swapped == [St EXCEPT !.sel_anchor = <<cursor_line, cursor_col>>,
                                        !.cursor_line = sel_anchor[1],
                                        !.cursor_col = sel_anchor[2]]
              IN /\ selected_text(St) =
                       SubSeq(Flat(lines), Min(at_anchor, at_cursor) + 1,
                              Max(at_anchor, at_cursor))
                 /\ selected_text(swapped) = selected_text(St)
        /\ sel_anchor = None => selected_text(St) = <<>>

\* C24 witness: a selection made backwards (the anchor two or more lines
\* below the cursor) that starts and ends inside a line; its text has two
\* newlines or more and is not the whole buffer.
C24_Witness ==
    /\ Live
    /\ sel_anchor # None
    /\ sel_anchor[1] >= cursor_line + 2
    /\ cursor_col > 0
    /\ sel_anchor[2] > 0
    /\ Cardinality({ i \in 1..Len(selected_text(St)) : selected_text(St)[i] = "nl" }) >= 2
    /\ selected_text(select_all(St)) = Flat(lines)
    /\ selected_text(St) # Flat(lines)

(* Helpers of the claims on scrolling. *)

\* The cursor's line of e lies inside the viewport of e.
CursorLineVisible(e) ==
    /\ e.cursor_line * LineHeight >= e.scroll_y
    /\ (e.cursor_line + 1) * LineHeight <= e.scroll_y + ViewHeight

\* insert_text, insert_newline, move_up and move_down leave the cursor's line
\* inside the viewport.
VisibleAfterScrollingOps ==
    /\ \A text \in Typed \cup Pasted : CursorLineVisible(insert_text(St, text))
    /\ CursorLineVisible(insert_newline(St))
    /\ \A ext \in BOOLEAN :
          /\ CursorLineVisible(move_up(St, ext))
          /\ CursorLineVisible(move_down(St, ext))

\* C25: after each operation that triggers scroll-to-cursor (insert_text,
\* insert_newline, delete_backward including its delete-selection case,
\* move_up, move_down) the cursor's line lies inside the viewport:
\* cursor_line * line_height >= scroll_y and (cursor_line + 1) * line_height
\* <= scroll_y + view_height, whenever view_height >= line_height.
C25_CursorLineVisible ==
    (Live /\ ViewHeight >= LineHeight) =>
        /\ VisibleAfterScrollingOps
        /\ CursorLineVisible(delete_backward(St))

\* C25, as far as it holds: the same with delete_backward taken only where
\* no selection is active.
C25_CursorLineVisibleNoSelection ==
    (Live /\ ViewHeight >= LineHeight) =>
        /\ VisibleAfterScrollingOps
        /\ ~has_selection(St) => CursorLineVisible(delete_backward(St))

\* A selection that ends below its start, with the view scrolled to the
\* cursor: delete_backward puts the cursor on a line above the viewport.
C25_DeletedOutOfView ==
    /\ Live
    /\ has_selection(St)
    /\ CursorLineVisible(St)
    /\ delete_backward(St).cursor_line * LineHeight < delete_backward(St).scroll_y

\* C26: move_left, move_right, move_to_line_start and move_to_line_end never
\* change scroll_y, whatever the cursor position and the extend flag, even
\* when the cursor leaves the visible range.
C26_HorizontalMotionsKeepScroll ==
    Live =>
        \A m \in {"left", "right", "line_start", "line_end"}, ext \in BOOLEAN :
            /\ Motion(m, St, ext).scroll_y = scroll_y
            /\ ~Motion(m, St, ext).crashed

\* C26 witness: the cursor is on an empty line in the middle of the buffer,
\* the only line in view; move_left takes it to the line above and move_right
\* to the line below, both out of view, and scroll_y stays.
C26_Witness ==
    /\ Live
    /\ CursorLineVisible(St)
    /\ scroll_y > 0
    /\ ~CursorLineVisible(move_left(St, FALSE))
    /\ move_left(St, FALSE).cursor_line = cursor_line - 1
    /\ move_left(St, FALSE).scroll_y = scroll_y
    /\ ~CursorLineVisible(move_right(St, TRUE))
    /\ move_right(St, TRUE).cursor_line = cursor_line + 1
    /\ move_right(St, TRUE).scroll_y = scroll_y

\* C27: original_lines (texts and token lists) is never changed by any
\* operation after the buffer is created.
C27_OriginalLinesKept == original_lines = initial_content

\* C27 witness: every line of the buffer has been edited away from the text
\* of its origin, lines were joined and split (all lines descend from origin
\* 0), and the tokens drawn for a line are remapped ones.
C27_Witness ==
    /\ Live
    /\ Len(lines) >= 2
    /\ \A i \in 1..Len(lines) :
          /\ line_origins[i] = 0
          /\ lines[i] # original_lines[1][1]
    /\ \E i \in 1..Len(lines) :
          /\ tokens_for_line(St, i - 1) # original_lines[1][2]
          /\ tokens_for_line(St, i - 1) # <<>>
    /\ original_lines = initial_content

\* The two ends of the selection of the current state.
SelectionEdges ==
    LET r == selection_range(St) IN { <<r[1], r[2]>>, <<r[3], r[4]>> }

\* C28 (as claimed): with extend_selection = FALSE and an active selection,
\* move_to_line_start and move_to_line_end collapse like the other motions:
\* the cursor ends at an edge of the previous selection (its start or its
\* end) and the anchor is cleared, and the jump to column 0 / line length is
\* not applied in that call.
C28_HomeEndCollapse ==
    (Live /\ has_selection(St)) =>
        \A m \in {"line_start", "line_end"} :
            /\ Pos(Motion(m, St, FALSE)) \in SelectionEdges
            /\ Motion(m, St, FALSE).sel_anchor = None

\* C28 (amended): with extend_selection = FALSE and an active selection,
\* move_to_line_start and move_to_line_end do not collapse onto the
\* selection: the cursor stays on its line and jumps to column 0, resp. to
\* the byte length of that line, whether or not that is an edge of the
\* selection; the anchor is cleared and nothing else changes.
C28_HomeEndJump ==
    (Live /\ has_selection(St)) =>
        /\ move_to_beginning_of_line(St, FALSE) =
              [St EXCEPT !.cursor_col = 0, !.sel_anchor = None]
        /\ move_to_end_of_line(St, FALSE) =
              [St EXCEPT !.cursor_col = Len(lines[cursor_line + 1]),
                         !.sel_anchor = None]

\* C28 witness: a selection inside one line that neither starts at column 0
\* nor ends at the end of the line: both motions leave the cursor off the
\* edges of the selection.
C28_Witness ==
    /\ Live
    /\ has_selection(St)
    /\ sel_anchor[1] = cursor_line
    /\ Pos(move_to_beginning_of_line(St, FALSE)) = <<cursor_line, 0>>
    /\ Pos(move_to_beginning_of_line(St, FALSE)) \notin SelectionEdges
    /\ Pos(move_to_end_of_line(St, FALSE)) = <<cursor_line, Len(lines[cursor_line + 1])>>
    /\ Pos(move_to_end_of_line(St, FALSE)) \notin SelectionEdges
    /\ move_to_end_of_line(St, FALSE).sel_anchor = None

(* Helpers of the claim on insert_text with newlines. *)

\* insert_newline(), insert_text(s1), ..., insert_newline(), insert_text(sk)
RECURSIVE NewlineThenText(_, _)
NewlineThenText(e, parts) ==
    IF parts = <<>> THEN e
    ELSE NewlineThenText(insert_text(insert_newline(e), Head(parts)), Tail(parts))

\* insert_text(s0), insert_newline(), insert_text(s1), ...
BySegments(e, text) ==
    NewlineThenText(insert_text(e, Head(Split(text))), Tail(Split(text)))

Newlines(text) == Cardinality({ i \in 1..Len(text) : text[i] = "nl" })

C30_PrefixSuffixDisjoint ==
    returned =>
        LET orig_len == Len(orig_text)
            curr_len == Len(curr_text)
            P0 == common_prefix(orig_text, curr_text, 0)
            S0 == common_suffix(orig_text, curr_text, P0, 0)
            P == prefix_of(orig_text, curr_text)
            S == suffix_of(orig_text, curr_text)
            delta == curr_len - orig_len
            orig_change_end == orig_len - S
        IN /\ P0 >= 0 /\ S0 >= 0 /\ P >= 0 /\ S >= 0
           /\ P0 + S0 <= Min(orig_len, curr_len)
           /\ P + S <= Min(orig_len, curr_len)
           /\ orig_len - P0 >= 0 /\ curr_len - P0 >= 0
           /\ orig_change_end >= P
           /\ curr_len - S >= P
           /\ \A p \in 0..(orig_len - 1) :
                 is_mapped(p, P, orig_change_end) =>
                    /\ map_position(p, P, delta) \in 0..(curr_len - 1)
                    /\ p >= orig_change_end => map_position(p, P, delta) >= P
                    /\ p < P => map_position(p, P, delta) < curr_len - S

\* C30 witness: a word between two spaces was deleted: prefix and suffix
\* together are the whole current text, the changed middle of the current
\* text is empty, and the colored first byte of the suffix is carried down
\* to position P.
C30_Witness ==
    /\ returned
    /\ LET P == prefix_of(orig_text, curr_text)
           S == suffix_of(orig_text, curr_text)
       IN /\ P > 0
          /\ S > 0
          /\ P + S = Len(curr_text)
          /\ Len(curr_text) < Len(orig_text)
          /\ PaintAt(tokens_json, Len(orig_text) - S) # <<default_c, default_st>>
          /\ PaintAt(remapped, P) = PaintAt(tokens_json, Len(orig_text) - S)

\* C31: with no active selection, move_up from a line that has a line above
\* and move_down from a line that has a line below change cursor.line by
\* exactly one and set cursor.col to min(previous col, byte length of the
\* target line), extending or not, and change no line and no origin; the
\* column is not remembered: going down onto a shorter line and up again
\* leaves the column at the shorter line's length.
C31_LineMotionClamps ==
    (Live /\ ~has_selection(St)) =>
        \A extend_selection \in BOOLEAN :
            LET u == move_up(St, extend_selection)
                d == move_down(St, extend_selection)
                back == move_up(d, extend_selection)
            IN /\ cursor_line > 0 =>
                      /\ Pos(u) = <<cursor_line - 1,
                                    Min(cursor_col, Len(lines[cursor_line]))>>
                      /\ u.lines = lines /\ u.line_origins = line_origins
                      /\ ~u.crashed
               /\ cursor_line + 1 < Len(lines) =>
                      /\ Pos(d) = <<cursor_line + 1,
                                    Min(cursor_col, Len(lines[cursor_line + 2]))>>
                      /\ d.lines = lines /\ d.line_origins = line_origins
                      /\ ~d.crashed
                      /\ Pos(back) = <<cursor_line,
                                       Min(cursor_col, Len(lines[cursor_line + 2]))>>

\* C31 witness: the cursor is further right than the line below is long, and
\* further right than the line above is long; down and up again does not
\* bring the column back.
C31_Witness ==
    /\ Live
    /\ ~has_selection(St)
    /\ cursor_line > 0
    /\ cursor_line + 1 < Len(lines)
    /\ cursor_col > Len(lines[cursor_line + 2])
    /\ cursor_col > Len(lines[cursor_line])
    /\ Pos(move_up(St, FALSE)) = <<cursor_line - 1, Len(lines[cursor_line])>>
    /\ Pos(move_up(move_down(St, FALSE), FALSE)) =
           <<cursor_line, Len(lines[cursor_line + 2])>>
(* Helpers of the claims on the frame. *)

\* The render_line calls of the frame for line index i.
LineCalls(i) == { k \in CallsNamed("render_line") : calls[k].line = i + 1 }

\* C32: in each frame render_line is called exactly once for each line index
\* i with first <= i < last, in ascending order, where first =
\* floor(scroll_y / line_height) and last = min(first +
\* ceil(view_height / line_height) + 2, line count), with line number i + 1,
\* the text of line i and y offset i * line_height - scroll_y; no line outside
\* that range is rendered.
C32_VisibleRange ==
    Live =>
        LET first == scroll_y \div LineHeight
            count == (ViewHeight + LineHeight - 1) \div LineHeight + 2
            last == Min(first + count, Len(lines))
        IN /\ \A i \in 0..(Len(lines) - 1) :
                 Cardinality(LineCalls(i)) = IF first <= i /\ i < last THEN 1 ELSE 0
           /\ \A k \in CallsNamed("render_line") :
                 /\ calls[k].line \in 1..Len(lines)
                 /\ calls[k].y = (calls[k].line - 1) * LineHeight - scroll_y
                 /\ calls[k].text = lines[calls[k].line]
                 /\ \A k2 \in CallsNamed("render_line") :
                       k < k2 => calls[k].line < calls[k2].line

\* C32 witness: the view is scrolled past the first line and the buffer goes
\* on below the slack lines, so lines are left out at both ends, and the
\* second rendered line is below the top of the view.
C32_Witness ==
    /\ Live
    /\ scroll_y >= LineHeight
    /\ LineCalls(0) = {}
    /\ LineCalls(Len(lines) - 1) = {}
    /\ Cardinality(CallsNamed("render_line")) =
           (ViewHeight + LineHeight - 1) \div LineHeight + 2
    /\ \E k \in CallsNamed("render_line") :
          calls[k].y = LineHeight /\ calls[k].line = scroll_y \div LineHeight + 2
\* The selected byte columns of line l (0-based) under the selection r: from
\* the start column on the first line, up to the end column on the last, the
\* whole text in between.
SelFrom(r, l) == IF l = r[1] THEN r[2] ELSE 0
SelTo(r, l) == IF l = r[3] THEN r[4] ELSE Len(lines[l + 1])

\* The covered lines whose selected part is not empty.
SelWide(r) == { l \in r[1]..r[3] : SelTo(r, l) > SelFrom(r, l) }

\* The selection list the frame holds.
FrameRects == calls[CHOOSE k \in CallsNamed("set_selection") : TRUE].rects

\* C33: for an active selection the frame's selection list holds one
\* rectangle for each covered line whose selected column range has positive
\* width and none for the others, in line order: it starts at the start
\* column on the first line and at the gutter edge on the others, spans the
\* characters up to the end column on the last line and up to the line end on
\* the others, sits at the line's y offset and is one line high.
C33_SelectionRects ==
    (Live /\ has_selection(St)) =>
        LET r == selection_range(St) IN
        /\ CallsNamed("set_selection") # {}
        /\ Len(FrameRects) = Cardinality(SelWide(r))
        /\ \A l \in SelWide(r) :
              \E k \in 1..Len(FrameRects) :
                 /\ FrameRects[k].y = l * LineHeight - scroll_y
                 /\ FrameRects[k].x = gutter_width(St) + CharWidth *
                        NumChars(Slice(lines[l + 1], 0, SelFrom(r, l)))
                 /\ FrameRects[k].w = CharWidth *
                        NumChars(Slice(lines[l + 1], SelFrom(r, l), SelTo(r, l)))
                 /\ FrameRects[k].h = LineHeight
        /\ \A k, k2 \in 1..Len(FrameRects) :
              k < k2 => FrameRects[k].y < FrameRects[k2].y

\* C33 witness: a selection over three lines or more with an empty line in
\* its interior and text selected on the first and the last line; the empty
\* line has no rectangle, the two others have one each.
C33_Witness ==
    /\ Live
    /\ has_selection(St)
    /\ LET r == selection_range(St) IN
       /\ r[3] >= r[1] + 2
       /\ \E l \in (r[1] + 1)..(r[3] - 1) : lines[l + 1] = <<>>
       /\ r[1] \in SelWide(r)
       /\ r[3] \in SelWide(r)
       /\ Len(FrameRects) = Cardinality(SelWide(r))
       /\ Len(FrameRects) < r[3] - r[1] + 1
\* C34: after every sequence of operations line_origins is non-decreasing and
\* every entry is a valid index into original_lines, so that the lines that
\* descend from one original line are contiguous and the lines keep the order
\* of their origins.
C34_OriginsOrdered ==
    /\ \A i \in 1..Len(line_origins) :
          line_origins[i] \in 0..(Len(original_lines) - 1)
    /\ \A i, j \in 1..Len(line_origins) :
          i <= j => line_origins[i] <= line_origins[j]

\* C34 witness: both original lines have been split, and their descendants
\* lie in two runs.
C34_Witness ==
    /\ Live
    /\ Len(line_origins) >= 4
    /\ line_origins[1] = 0
    /\ line_origins[2] = 0
    /\ line_origins[Len(line_origins) - 1] = 1
    /\ line_origins[Len(line_origins)] = 1
\* The anchor, when present, is a position of the buffer.
AnchorInBuffer ==
    sel_anchor # None =>
        /\ sel_anchor[1] >= 0
        /\ sel_anchor[1] < Len(lines)
        /\ sel_anchor[2] >= 0
        /\ sel_anchor[2] <= Len(lines[sel_anchor[1] + 1])

\* A step that changes a line or the number of lines leaves no anchor.
EditClearsAnchor == lines' # lines => sel_anchor' = None

\* C35: whenever sel_anchor is present it denotes a valid position of the
\* current buffer (anchor.line < lines.len() and anchor.col <= the byte length
\* of lines[anchor.line]), after any sequence of operations, and every
\* operation that changes lines also clears the anchor.
C35_AnchorInBuffer == []AnchorInBuffer /\ [][EditClearsAnchor]_vars

\* C35 witness: an anchor on the last line at the end of its text, the cursor
\* on a line above it; backspace, typing and cut change the lines and leave no
\* anchor.
C35_Witness ==
    /\ Live
    /\ has_selection(St)
    /\ sel_anchor[1] = Len(lines) - 1
    /\ sel_anchor[1] > cursor_line
    /\ sel_anchor[2] = Len(lines[sel_anchor[1] + 1])
    /\ sel_anchor[2] > 0
    /\ delete_backward(St).lines # lines
    /\ delete_backward(St).sel_anchor = None
    /\ insert_text(St, <<"a">>).sel_anchor = None
    /\ cut_to_clipboard(St).lines # lines
    /\ cut_to_clipboard(St).sel_anchor = None
\* C36: in every frame the gutter width the core uses to place the cursor and
\* the selection rectangles and to interpret clicks (from the total line
\* count) equals the gutter width the renderer uses to place the line text
\* (from the largest line number rendered in that frame), for every line
\* count and scroll position.
C36_SameGutter == Live => gutter_width(St) = view_gutter_width(calls)

\* C36, as far as it holds: the two widths are equal in the frames of a
\* buffer of fewer than 100 lines and in the frames that show a line numbered
\* 100 or more.
C36_SameGutterSameDigits ==
    (Live /\ (Len(lines) < 100 \/ max_line_number(calls) >= 100)) =>
        gutter_width(St) = view_gutter_width(calls)

\* A frame of a buffer of 100 lines that shows none of the lines numbered
\* 100 or more: the core's gutter is one character cell wider than the
\* renderer's.
C36_GutterApart ==
    /\ Live
    /\ Len(lines) >= 100
    /\ max_line_number(calls) < 100
    /\ max_line_number(calls) > 0
    /\ gutter_width(St) = view_gutter_width(calls) + CharWidth
\* The frame a redraw of the present state builds.
FrameNow == render([St EXCEPT !.calls = <<>>]).calls

\* C37: after each input callback returns (text input, action, mouse down,
\* scroll, paste completion) the renderer's frame is the one built from the
\* buffer state as it is at that moment: no change to lines, cursor, selection
\* or scroll is left unrendered, the cursor call carries the cursor's place,
\* and when no selection is active the frame holds no selection rectangles.
C37_FrameIsCurrent ==
    Live =>
        /\ calls = FrameNow
        /\ \A k \in CallsNamed("set_cursor") :
              /\ calls[k].y = cursor_line * LineHeight - scroll_y
              /\ calls[k].x = gutter_width(St) + CharWidth *
                     NumChars(Slice(lines[cursor_line + 1], 0, cursor_col))
        /\ ~has_selection(St) => CallsNamed("set_selection") = {}

\* C37 witness: an anchor without a selection (it equals the cursor) in a
\* scrolled view, the cursor after a two-byte character: the frame has the
\* cursor one cell right of the gutter and no selection call.
C37_Witness ==
    /\ Live
    /\ sel_anchor # None
    /\ ~has_selection(St)
    /\ scroll_y > 0
    /\ cursor_col = 2
    /\ lines[cursor_line + 1][2] = "a9"
    /\ CallsNamed("set_selection") = {}
    /\ \E k \in CallsNamed("set_cursor") :
          calls[k].x = gutter_width(St) + CharWidth /\ calls[k].y = 0
    /\ calls = FrameNow
\* The cursor is at the end of the last line.
AtBufferEnd ==
    cursor_line = Len(lines) - 1 /\ cursor_col = Len(lines[cursor_line + 1])

\* C38: with no active selection, move_right(false) followed by
\* move_left(false) returns the cursor to where it was whenever the cursor was
\* not at the end of the buffer, and move_left(false) followed by
\* move_right(false) does so whenever it was not at (0,0), across line
\* boundaries and multi-byte characters; each first step does move the
\* cursor, and lines and origins are unchanged.
C38_LeftRightRoundTrip ==
    (Live /\ ~has_selection(St)) =>
        /\ ~AtBufferEnd =>
              LET a == move_right(St, FALSE)
                  b == move_left(a, FALSE)
              IN /\ Pos(a) # <<cursor_line, cursor_col>>
                 /\ Pos(b) = <<cursor_line, cursor_col>>
                 /\ b.lines = lines /\ b.line_origins = line_origins
                 /\ ~b.crashed
        /\ <<cursor_line, cursor_col>> # <<0, 0>> =>
              LET a == move_left(St, FALSE)
                  b == move_right(a, FALSE)
              IN /\ Pos(a) # <<cursor_line, cursor_col>>
                 /\ Pos(b) = <<cursor_line, cursor_col>>
                 /\ b.lines = lines /\ b.line_origins = line_origins
                 /\ ~b.crashed

\* C38 witness: the cursor is at the start of a line below the first, before
\* a two-byte character: to the right it passes the character and comes back,
\* to the left it wraps to the end of the line above and comes back.
C38_Witness ==
    /\ Live
    /\ ~has_selection(St)
    /\ cursor_line > 0
    /\ cursor_col = 0
    /\ Len(lines[cursor_line + 1]) >= 2
    /\ lines[cursor_line + 1][1] = "c3"
    /\ Pos(move_right(St, FALSE)) = <<cursor_line, 2>>
    /\ Pos(move_left(move_right(St, FALSE), FALSE)) = <<cursor_line, 0>>
    /\ Pos(move_left(St, FALSE)) = <<cursor_line - 1, Len(lines[cursor_line])>>
    /\ Pos(move_right(move_left(St, FALSE), FALSE)) = <<cursor_line, 0>>
\* C39: for any active selection, delete_selection followed by
\* insert_text(t), where t is the selected_text taken just before, restores
\* the text of every line and the line count, keeps one origin per line, and
\* leaves the cursor at the former selection end and the anchor cleared.
C39_DeleteThenReinsert ==
    (Live /\ has_selection(St)) =>
        LET r == selection_range(St)
            t == selected_text(St)
            d == delete_selection(St)
            e == insert_text(d, t)
        IN /\ ~d.crashed
           /\ ~e.crashed
           /\ Len(t) > 0
           /\ Flat(d.lines) # Flat(lines)
           /\ e.lines = lines
           /\ Len(e.line_origins) = Len(lines)
           /\ Pos(e) = <<r[3], r[4]>>
           /\ e.sel_anchor = None

\* C39 witness: a selection made backwards, the anchor two lines or more
\* below the cursor and past the start of its line, with a two-byte character
\* selected;
\* the lines come back and the cursor ends at the former anchor.
C39_Witness ==
    /\ Live
    /\ has_selection(St)
    /\ sel_anchor[1] >= cursor_line + 2
    /\ sel_anchor[2] > 0
    /\ \E i \in 1..Len(selected_text(St)) : selected_text(St)[i] = "c3"
    /\ LET e == insert_text(delete_selection(St), selected_text(St))
       IN /\ e.lines = lines
          /\ Pos(e) = sel_anchor
          /\ Pos(e) # <<cursor_line, cursor_col>>
          /\ e.sel_anchor = None
====
